---- MODULE Spec2Model ----
(***************************************************************************)
(* merkle-go: concurrent file hashing (walker.HashFiles), Merkle tree      *)
(* construction (tree.Build), the tree file (tree.Save, tree.Load), tree   *)
(* comparison (compare.Compare, FormatReport), the two commands of main.go *)
(* and the primitives they rest on (hash.HashFile, hash.XXHashFunc,        *)
(* encoding/hex, encoding/json, sort.Strings, path/filepath).              *)
(*                                                                         *)
(* Strings are sequences of one-character strings.  A digest is symbolic:  *)
(* the 8 big-endian bytes of xxhash64(data) are one token that remembers   *)
(* data, so that two digests are equal exactly when their inputs are (the  *)
(* accumulator is treated as collision-free).  Hex text and byte strings   *)
(* are sequences of tokens: a literal character / byte, or the 16          *)
(* characters / 8 bytes of one digest.                                     *)
(***************************************************************************)
EXTENDS Integers, Sequences, FiniteSets, TLC

VARIABLES
    \* ---- walker.HashFiles ------------------------------------------------
    fsys,         \* the file system: path -> [readable, data, mtime]
    files,        \* HashFiles argument: the []FileInfo
    callerWorkers,\* the worker count the caller passed to HashFiles
    numWorkers,   \* HashFiles parameter numWorkers, reassigned by the coercion
    progressBar,  \* HashFiles argument: <<>> (nil) or <<Bar>>
    result,       \* *HashResult: [Hashes, Errors]
    jobs,         \* chan hashJob:       [made, cap, buf, closed]
    results,      \* chan hashJobResult: [made, cap, buf, closed]
    wg,           \* sync.WaitGroup counter
    pc,           \* position of the calling goroutine in HashFiles
    i,            \* loop variable of the worker-starting loop
    worker,       \* per worker goroutine: [pc, job, res]
    sender,       \* the job-sending goroutine: [pc, next]
    closer,       \* the goroutine that waits and closes results: pc
    ret,          \* what HashFiles returned: <<>> or <<[result, err]>>
    attempts,     \* history: number of hash.HashFile calls per path
    panicked,     \* a goroutine sent on or closed a closed channel
    \* ---- tree.Build ------------------------------------------------------
    bIn,          \* the two argument lists of Build: [files, rootPath] each
    bOut,         \* the two results of Build: <<>> or <<[tree, err]>> each
    \* ---- generateTree and compareTree ------------------------------------
    cmdIn,        \* the directory at the two runs: [gen, cmp], [files, rootPath] each
    disk,         \* the tree file: <<>> (absent) or <<document>>
    genOut,       \* generateTree: <<>> or <<[tree, err]>>, err of Save
    loaded,       \* compareTree: <<>> or <<[tree, err, file]>>, Load and what it read
    scanned,      \* compareTree: <<>> or <<[Errors, tree, err]>>, the new tree
    cmpOut,       \* compareTree: <<>> or <<[result, report, changes, presorted]>>
    exit,         \* compareTree: <<>> or <<[code, by]>>, the exit status
    cmdPc,        \* position in the two commands
    \* ---- hash.HashFile ---------------------------------------------------
    hIn,          \* the file: [data, readable]
    hBuf,         \* buf
    hAcc,         \* the bytes written to the accumulator h
    hOff,         \* the offset of the open file
    hPc,          \* position in HashFile
    hRet          \* what HashFile returned: <<>> or <<[hash, err]>>

hfVars == <<callerWorkers, fsys, files, numWorkers, progressBar, result, jobs, results,
            wg, pc, i, worker, sender, closer, ret, attempts, panicked>>
bVars  == <<bIn, bOut>>
cmdVars == <<cmdIn, disk, genOut, loaded, scanned, cmpOut, exit, cmdPc>>
hVars  == <<hIn, hBuf, hAcc, hOff, hPc, hRet>>
vars   == <<hfVars, bVars, cmdVars, hVars>>

(***************************************************************************)
(* Bounds of the model.                                                    *)
(***************************************************************************)
MaxFiles   == 3     \* longest []FileInfo handed to HashFiles
MaxWorkers == 2     \* largest numWorkers handed to HashFiles
MaxBuildFiles == 3  \* most entries of a file map handed to Build
MaxScanFiles == 3   \* most files of a directory the commands scan
OrdersUpTo == 3     \* maps up to this size are ranged over in every order
MaxContent == 4     \* longest file content read by HashFile, in bytes
\* hasher.go line 13 sets bufferSize to 32 KiB; the model's buffer is scaled
\* down so that contents of a few bytes span several reads.
bufferSize == 2

(***************************************************************************)
(* Characters and strings.                                                 *)
(***************************************************************************)
\* The characters of the model's strings, in runs of consecutive byte values.
Punct  == <<"-", ".", "/", "0", "1", "2", "3", "4", "5", "6", "7", "8", "9", ":">>
Upper  == <<"A", "B", "C", "D", "E", "F", "G", "H", "I", "J", "K", "L", "M",
            "N", "O", "P", "Q", "R", "S", "T", "U", "V", "W", "X", "Y", "Z">>
Lower  == <<"a", "b", "c", "d", "e", "f", "g", "h", "i", "j", "k", "l", "m",
            "n", "o", "p", "q", "r", "s", "t", "u", "v", "w", "x", "y", "z">>

IndexOf(run, c) == CHOOSE k \in 1..Len(run) : run[k] = c
InRun(run, c)   == \E k \in 1..Len(run) : run[k] = c
Chars == {Punct[k] : k \in 1..Len(Punct)} \cup {Upper[k] : k \in 1..Len(Upper)}
         \cup {Lower[k] : k \in 1..Len(Lower)}

\* The byte value of each character ([]byte(s) in Go).
CodeOf ==
    [c \in Chars |->
        IF InRun(Punct, c) THEN 44 + IndexOf(Punct, c)
        ELSE IF InRun(Upper, c) THEN 64 + IndexOf(Upper, c)
        ELSE 96 + IndexOf(Lower, c)]
Code(c) == CodeOf[c]

\* Go's < on strings: byte-wise lexicographic order.
RECURSIVE StrLess(_, _)
StrLess(a, b) ==
    IF b = <<>> THEN FALSE
    ELSE IF a = <<>> THEN TRUE
    ELSE IF Code(Head(a)) < Code(Head(b)) THEN TRUE
    ELSE IF Code(Head(a)) > Code(Head(b)) THEN FALSE
    ELSE StrLess(Tail(a), Tail(b))

\* strings.HasPrefix
HasPrefix(s, prefix) ==
    Len(s) >= Len(prefix) /\ SubSeq(s, 1, Len(prefix)) = prefix

\* strings.TrimPrefix
TrimPrefix(s, prefix) ==
    IF HasPrefix(s, prefix) THEN SubSeq(s, Len(prefix) + 1, Len(s)) ELSE s

Separator == "/"

\* strings.Split(s, "/")
RECURSIVE SplitAt(_, _)
SplitAt(s, cur) ==
    IF s = <<>> THEN <<cur>>
    ELSE IF Head(s) = Separator THEN <<cur>> \o SplitAt(Tail(s), <<>>)
    ELSE SplitAt(Tail(s), Append(cur, Head(s)))
Split(s) == SplitAt(s, <<>>)

\* strings.Join(elems, "/")
RECURSIVE JoinSep(_)
JoinSep(elems) ==
    IF elems = <<>> THEN <<>>
    ELSE IF Len(elems) = 1 THEN elems[1]
    ELSE elems[1] \o <<Separator>> \o JoinSep(Tail(elems))

DotDot == <<".", ".">>

\* The element stack of filepath.Clean: "" and "." are dropped, ".." removes the
\* element before it (at the root it is dropped, in a relative path it is kept).
RECURSIVE CleanElems(_, _, _)
CleanElems(elems, out, rooted) ==
    IF elems = <<>> THEN out
    ELSE LET e == Head(elems)
             rest == Tail(elems)
         IN  IF e = <<>> \/ e = <<".">> THEN CleanElems(rest, out, rooted)
             ELSE IF e = DotDot
                  THEN IF out # <<>> /\ out[Len(out)] # DotDot
                       THEN CleanElems(rest, SubSeq(out, 1, Len(out) - 1), rooted)
                       ELSE IF rooted THEN CleanElems(rest, out, rooted)
                       ELSE CleanElems(rest, Append(out, e), rooted)
             ELSE CleanElems(rest, Append(out, e), rooted)

\* filepath.Clean
Clean(path) ==
    IF path = <<>> THEN <<".">>
    ELSE LET rooted == Head(path) = Separator
             body == JoinSep(CleanElems(Split(path), <<>>, rooted))
         IN  IF rooted THEN <<Separator>> \o body
             ELSE IF body = <<>> THEN <<".">> ELSE body

\* filepath.Base
Base(path) ==
    IF path = <<>> THEN <<".">>
    ELSE LET elems == SelectSeq(Split(path), LAMBDA e : e # <<>>)
         IN  IF elems = <<>> THEN <<Separator>> ELSE elems[Len(elems)]

\* filepath.Dir
Dir(path) ==
    LET elems == Split(path)
        dir == Clean(JoinSep(SubSeq(elems, 1, Len(elems) - 1)))
    IN  IF Len(elems) > 1 /\ Head(path) = Separator /\ dir = <<".">>
        THEN <<Separator>> ELSE dir

\* sort.Strings: the ascending arrangement of the strings (insertion sort).
RECURSIVE Insert(_, _)
Insert(sorted, x) ==
    IF sorted = <<>> THEN <<x>>
    ELSE IF StrLess(x, Head(sorted)) THEN <<x>> \o sorted
    ELSE <<Head(sorted)>> \o Insert(Tail(sorted), x)

\* Mutant of SortStrings: the paths stay in the order the map gave them.
SortStringsOff(paths) == paths

RECURSIVE SortStrings(_)
SortStrings(paths) ==
    IF paths = <<>> THEN <<>>
    ELSE Insert(SortStrings(SubSeq(paths, 1, Len(paths) - 1)), paths[Len(paths)])

(***************************************************************************)
(* Bytes, hex text and the digest.                                         *)
(***************************************************************************)
\* One literal byte.
LitByte(n) == [t |-> "byte", n |-> n, of |-> <<>>]
\* The 8 big-endian bytes of xxhash64(data).
SumBytes(data) == [t |-> "sum", n |-> 0, of |-> data]
\* One literal character of a hash string.
LitChar(c) == [t |-> "char", c |-> c, of |-> <<>>]
\* The 16 lowercase hex characters of the 8 bytes of xxhash64(data).
SumHex(data) == [t |-> "sumhex", c |-> "", of |-> data]

\* A Go string literal as a hash string, and as its bytes.
Str(s) == [k \in 1..Len(s) |-> LitChar(s[k])]
Bytes(s) == [k \in 1..Len(s) |-> LitByte(Code(s[k]))]

HexDigits == <<"0", "1", "2", "3", "4", "5", "6", "7", "8", "9",
               "a", "b", "c", "d", "e", "f">>
UpperHexDigits == <<"A", "B", "C", "D", "E", "F">>

\* encoding/hex reverseHexTable: the value of a hex digit of either case, 255
\* for every other character.
FromHexChar(c) ==
    IF InRun(HexDigits, c) THEN IndexOf(HexDigits, c) - 1
    ELSE IF InRun(UpperHexDigits, c) THEN IndexOf(UpperHexDigits, c) + 9
    ELSE 255

\* hex.EncodeToString
RECURSIVE EncodeToString(_)
EncodeToString(bytes) ==
    IF bytes = <<>> THEN <<>>
    ELSE LET b == Head(bytes)
         IN  (IF b.t = "sum" THEN <<SumHex(b.of)>>
              ELSE <<LitChar(HexDigits[(b.n \div 16) + 1]),
                     LitChar(HexDigits[(b.n % 16) + 1])>>)
             \o EncodeToString(Tail(bytes))

\* hex.DecodeString with its error dropped (src[:n], as the callers in Build
\* use it): the bytes decoded before the first invalid character or before
\* the odd trailing character.
RECURSIVE DecodeString(_)
DecodeString(s) ==
    IF s = <<>> THEN <<>>
    ELSE IF Head(s).t = "sumhex"
         THEN <<SumBytes(Head(s).of)>> \o DecodeString(Tail(s))
    ELSE IF Len(s) = 1 \/ s[2].t = "sumhex" THEN <<>>
    ELSE LET a == FromHexChar(s[1].c)
             b == FromHexChar(s[2].c)
         IN  IF a > 15 \/ b > 15 THEN <<>>
             ELSE <<LitByte(a * 16 + b)>> \o DecodeString(SubSeq(s, 3, Len(s)))

\* hash.XXHashFunc: the 8 big-endian bytes of xxhash64(data); it never fails.
XXHashFunc(data) == [sum |-> <<SumBytes(data)>>, err |-> FALSE]

(***************************************************************************)
(* hash.HashFile and the file system it reads.                             *)
(***************************************************************************)
\* The k-th file of a scanned directory.
FilePath(k) == <<"/", "r", "/", Lower[k]>>
FilePaths == {FilePath(k) : k \in 1..MaxFiles}

\* What the file holds when it can be read (as the tests write it:
\* "content-<k>").
ContentOf(k) == Bytes(<<"c", "o", "n", "t", "e", "n", "t", "-", Punct[k + 3]>>)

\* time.Time: seconds and nanoseconds.
Time(sec, nsec) == [sec |-> sec, nsec |-> nsec]

\* hash.HashFile: os.Open fails on an unreadable path; otherwise the stream
\* is fed to the accumulator and the digest returned as lowercase hex.
HashFile(path) ==
    IF ~fsys[path].readable
    THEN [hash |-> <<>>, err |-> TRUE]
    ELSE [hash |-> EncodeToString(<<SumBytes(fsys[path].data)>>), err |-> FALSE]

(***************************************************************************)
(* walker.HashFiles.                                                       *)
(***************************************************************************)
FileInfo(k) == [Path |-> FilePath(k), Size |-> 9, ModTime |-> Time(k, 0)]

\* progress.New(total)
NewBar(total) == [total |-> total, current |-> 0, currentDirs |-> {},
                  enabled |-> TRUE]
\* (*Bar).SetDirectory
SetDirectory(b, dir) ==
    IF ~b.enabled THEN b ELSE [b EXCEPT !.currentDirs = @ \cup {dir}]
\* (*Bar).Increment
Increment(b) ==
    IF ~b.enabled THEN b ELSE [b EXCEPT !.current = @ + 1]

NoChan == [made |-> FALSE, cap |-> 0, buf |-> <<>>, closed |-> FALSE]
\* Mutant of MakeChan: the channel buffers one element only.
MakeChanOneSlot(n) == [made |-> TRUE, cap |-> 1, buf |-> <<>>, closed |-> FALSE]

\* make(chan T, n)
MakeChan(n) == [made |-> TRUE, cap |-> n, buf |-> <<>>, closed |-> FALSE]

Workers == 1..MaxWorkers
Idle == [pc |-> "none", job |-> <<>>, res |-> <<>>]

\* The batches handed to HashFiles: the first n files of the directory, and
\* the same with the first file named once more at the end.
Batch(n) == [k \in 1..n |-> FileInfo(k)]
Batches == {Batch(n) : n \in 0..MaxFiles}
           \cup {Append(Batch(n - 1), FileInfo(1)) : n \in 2..MaxFiles}

\* The states HashFiles can be called in: a batch of at most MaxFiles files,
\* any set of them unreadable, any worker count, with or without a progress
\* bar.
HFInit ==
    /\ files \in Batches
    /\ progressBar \in {<<>>, <<NewBar(Len(files))>>}
    /\ \E bad \in SUBSET FilePaths :
          /\ bad \subseteq {files[k].Path : k \in 1..Len(files)}
          /\ fsys = [p \in FilePaths |->
                       [readable |-> p \notin bad,
                        data |-> ContentOf(CHOOSE k \in 1..MaxFiles : FilePath(k) = p)]]
    /\ callerWorkers \in (0 - 1)..MaxWorkers
    /\ numWorkers = callerWorkers
    /\ result = [Hashes |-> <<>>, Errors |-> <<>>]
    /\ jobs = NoChan
    /\ results = NoChan
    /\ wg = 0
    /\ pc = "entry"
    /\ i = 0
    /\ worker = [w \in Workers |-> Idle]
    /\ sender = [pc |-> "none", next |-> 1]
    /\ closer = "none"
    /\ ret = <<>>
    /\ attempts = [p \in FilePaths |-> 0]
    /\ panicked = FALSE

\* Mutant of Coerce: the worker count is used as the caller passed it.
CoerceOff(n) == n

\* The coercion of the worker count (lines 133-135).
Coerce(n) == IF n <= 0 THEN 1 ELSE n

\* Lines 133-148: coerce the worker count, make the result, return at once
\* on an empty batch, otherwise make the two channels.
Enter ==
    /\ pc = "entry"
    /\ numWorkers' = Coerce(numWorkers)
    /\ result' = [Hashes |-> <<>>, Errors |-> <<>>]
    /\ IF Len(files) = 0
       THEN /\ pc' = "done"
            /\ ret' = <<[result |-> result', err |-> FALSE]>>
            /\ UNCHANGED <<jobs, results>>
       ELSE /\ pc' = "spawn"
            /\ jobs' = MakeChan(Len(files))
            /\ results' = MakeChan(Len(files))
            /\ UNCHANGED ret
    /\ i' = 0
    /\ UNCHANGED <<callerWorkers, bVars, cmdVars, hVars>>
    /\ UNCHANGED <<fsys, files, progressBar, wg, worker, sender, closer,
                   attempts, panicked>>

\* Lines 152-165: one turn of the loop that starts the workers.
StartWorker ==
    /\ pc = "spawn"
    /\ i < numWorkers
    /\ wg' = wg + 1
    /\ worker' = [worker EXCEPT ![i + 1].pc = "recv"]
    /\ i' = i + 1
    /\ UNCHANGED <<callerWorkers, bVars, cmdVars, hVars>>
    /\ UNCHANGED <<fsys, files, numWorkers, progressBar, result, jobs, results,
                   pc, sender, closer, ret, attempts, panicked>>

\* Lines 168-173: the loop is over; start the goroutine that sends the jobs.
StartSender ==
    /\ pc = "spawn"
    /\ ~(i < numWorkers)
    /\ sender' = [pc |-> "send", next |-> 1]
    /\ pc' = "spawnCloser"
    /\ UNCHANGED <<callerWorkers, bVars, cmdVars, hVars>>
    /\ UNCHANGED <<fsys, files, numWorkers, progressBar, result, jobs, results,
                   wg, i, worker, closer, ret, attempts, panicked>>

\* Lines 176-179: start the goroutine that waits for the workers.
StartCloser ==
    /\ pc = "spawnCloser"
    /\ closer' = "wait"
    /\ pc' = "collect"
    /\ UNCHANGED <<callerWorkers, bVars, cmdVars, hVars>>
    /\ UNCHANGED <<fsys, files, numWorkers, progressBar, result, jobs, results,
                   wg, i, worker, sender, ret, attempts, panicked>>

\* Line 170: the sender puts the next job on the jobs channel (blocks while
\* the buffer is full; a send on a closed channel panics).
SenderSend ==
    /\ sender.pc = "send"
    /\ sender.next <= Len(files)
    /\ ~panicked
    /\ IF jobs.closed
       THEN /\ panicked' = TRUE
            /\ UNCHANGED <<jobs, sender>>
       ELSE /\ Len(jobs.buf) < jobs.cap
            /\ jobs' = [jobs EXCEPT !.buf = Append(@, [fileInfo |-> files[sender.next]])]
            /\ sender' = [sender EXCEPT !.next = @ + 1]
            /\ UNCHANGED panicked
    /\ UNCHANGED <<callerWorkers, bVars, cmdVars, hVars>>
    /\ UNCHANGED <<fsys, files, numWorkers, progressBar, result, results, wg,
                   pc, i, worker, closer, ret, attempts>>

\* Line 172: every job is sent; close the jobs channel.
SenderClose ==
    /\ sender.pc = "send"
    /\ sender.next > Len(files)
    /\ ~panicked
    /\ jobs' = [jobs EXCEPT !.closed = TRUE]
    /\ panicked' = jobs.closed
    /\ sender' = [sender EXCEPT !.pc = "exit"]
    /\ UNCHANGED <<callerWorkers, bVars, cmdVars, hVars>>
    /\ UNCHANGED <<fsys, files, numWorkers, progressBar, result, results, wg,
                   pc, i, worker, closer, ret, attempts>>

\* Mutant of WorkerRecv: the job is read but stays on the queue.
WorkerRecvPeek(w) ==
    /\ worker[w].pc = "recv"
    /\ ~panicked
    /\ jobs.buf # <<>>
    /\ worker' = [worker EXCEPT ![w] = [pc |-> "hash", job |-> <<Head(jobs.buf)>>,
                                       res |-> <<>>]]
    /\ UNCHANGED <<callerWorkers, bVars, cmdVars, hVars>>
    /\ UNCHANGED <<fsys, files, numWorkers, progressBar, result, jobs, results, wg,
                   pc, i, sender, closer, ret, attempts, panicked>>

\* Line 156: a worker receives the next job from the jobs channel.
WorkerRecv(w) ==
    /\ worker[w].pc = "recv"
    /\ ~panicked
    /\ jobs.buf # <<>>
    /\ worker' = [worker EXCEPT ![w] = [pc |-> "hash", job |-> <<Head(jobs.buf)>>,
                                       res |-> <<>>]]
    /\ jobs' = [jobs EXCEPT !.buf = Tail(@)]
    /\ UNCHANGED <<callerWorkers, bVars, cmdVars, hVars>>
    /\ UNCHANGED <<fsys, files, numWorkers, progressBar, result, results, wg,
                   pc, i, sender, closer, ret, attempts, panicked>>

\* Mutant of WorkerExit: the worker returns without wg.Done.
WorkerExitNoDone(w) ==
    /\ worker[w].pc = "recv"
    /\ ~panicked
    /\ jobs.buf = <<>>
    /\ jobs.closed
    /\ worker' = [worker EXCEPT ![w] = [pc |-> "exit", job |-> <<>>, res |-> <<>>]]
    /\ UNCHANGED <<callerWorkers, bVars, cmdVars, hVars>>
    /\ UNCHANGED <<fsys, files, numWorkers, progressBar, result, jobs, results, wg,
                   pc, i, sender, closer, ret, attempts, panicked>>

\* Lines 155-156: the jobs channel is closed and drained: the range loop ends
\* and the deferred wg.Done runs.
WorkerExit(w) ==
    /\ worker[w].pc = "recv"
    /\ ~panicked
    /\ jobs.buf = <<>>
    /\ jobs.closed
    /\ worker' = [worker EXCEPT ![w] = [pc |-> "exit", job |-> <<>>, res |-> <<>>]]
    /\ wg' = wg - 1
    /\ UNCHANGED <<callerWorkers, bVars, cmdVars, hVars>>
    /\ UNCHANGED <<fsys, files, numWorkers, progressBar, result, jobs, results,
                   pc, i, sender, closer, ret, attempts, panicked>>

\* Line 157: the worker hashes the file of its job.
WorkerHash(w) ==
    /\ worker[w].pc = "hash"
    /\ ~panicked
    /\ LET path == worker[w].job[1].fileInfo.Path
           h == HashFile(path)
       IN  /\ worker' = [worker EXCEPT ![w] =
                           [pc |-> "send", job |-> @.job,
                            res |-> <<[path |-> path, hash |-> h.hash, err |-> h.err]>>]]
           /\ attempts' = [attempts EXCEPT ![path] = @ + 1]
    /\ UNCHANGED <<callerWorkers, bVars, cmdVars, hVars>>
    /\ UNCHANGED <<fsys, files, numWorkers, progressBar, result, jobs, results,
                   wg, pc, i, sender, closer, ret, panicked>>

\* Mutant of WorkerSend: the worker records its result itself.
WorkerSendRecords(w) ==
    /\ worker[w].pc = "send"
    /\ ~panicked
    /\ result' = [result EXCEPT !.Hashes =
                    (worker[w].res[1].path :> worker[w].res[1].hash) @@ @]
    /\ worker' = [worker EXCEPT ![w] = [pc |-> "recv", job |-> <<>>, res |-> <<>>]]
    /\ UNCHANGED <<callerWorkers, bVars, cmdVars, hVars>>
    /\ UNCHANGED <<fsys, files, numWorkers, progressBar, results, jobs, wg, pc,
                   i, sender, closer, ret, attempts, panicked>>

\* Lines 158-162: the worker sends its result on the results channel (blocks
\* while the buffer is full; a send on a closed channel panics).
WorkerSend(w) ==
    /\ worker[w].pc = "send"
    /\ ~panicked
    /\ IF results.closed
       THEN /\ panicked' = TRUE
            /\ UNCHANGED <<results, worker>>
       ELSE /\ Len(results.buf) < results.cap
            /\ results' = [results EXCEPT !.buf = Append(@, worker[w].res[1])]
            /\ worker' = [worker EXCEPT ![w] = [pc |-> "recv", job |-> <<>>,
                                               res |-> <<>>]]
            /\ UNCHANGED panicked
    /\ UNCHANGED <<callerWorkers, bVars, cmdVars, hVars>>
    /\ UNCHANGED <<fsys, files, numWorkers, progressBar, result, jobs, wg, pc,
                   i, sender, closer, ret, attempts>>

\* Mutant of CloserWait: the closer does not wait for the workers.
CloserWaitSkipped ==
    /\ closer = "wait"
    /\ ~panicked
    /\ closer' = "close"
    /\ UNCHANGED <<callerWorkers, bVars, cmdVars, hVars>>
    /\ UNCHANGED <<fsys, files, numWorkers, progressBar, result, jobs, results,
                   wg, pc, i, worker, sender, ret, attempts, panicked>>

\* Line 177: wg.Wait returns once the counter is zero.
CloserWait ==
    /\ closer = "wait"
    /\ ~panicked
    /\ wg = 0
    /\ closer' = "close"
    /\ UNCHANGED <<callerWorkers, bVars, cmdVars, hVars>>
    /\ UNCHANGED <<fsys, files, numWorkers, progressBar, result, jobs, results,
                   wg, pc, i, worker, sender, ret, attempts, panicked>>

\* Line 178: close the results channel.
CloserClose ==
    /\ closer = "close"
    /\ ~panicked
    /\ results' = [results EXCEPT !.closed = TRUE]
    /\ panicked' = results.closed
    /\ closer' = "exit"
    /\ UNCHANGED <<callerWorkers, bVars, cmdVars, hVars>>
    /\ UNCHANGED <<fsys, files, numWorkers, progressBar, result, jobs, wg, pc,
                   i, worker, sender, ret, attempts>>

\* Mutant of TaggedError: the error is passed on without the path.
TaggedErrorNoPath(path) == [path |-> <<>>, cause |-> "open"]

\* fmt.Errorf("%s: %w", path, err): the error tagged with its path.
TaggedError(path) == [path |-> path, cause |-> "open"]

\* Mutant of Record: a failed result is dropped instead of being appended.
RecordDropsErrors(res, r) ==
    IF r.err THEN res ELSE [res EXCEPT !.Hashes = (r.path :> r.hash) @@ @]

\* Lines 183-194: the body of the collecting loop for one received result.
Record(res, r) ==
    IF r.err
    THEN [res EXCEPT !.Errors = Append(@, TaggedError(r.path))]
    ELSE [res EXCEPT !.Hashes = (r.path :> r.hash) @@ @]

\* Lines 182-195: the caller receives one result and records it.
Collect ==
    /\ pc = "collect"
    /\ ~panicked
    /\ results.buf # <<>>
    /\ LET r == Head(results.buf)
       IN  /\ result' = Record(result, r)
           /\ progressBar' =
                 IF ~r.err /\ progressBar # <<>>
                 THEN <<Increment(SetDirectory(progressBar[1], Dir(r.path)))>>
                 ELSE progressBar
    /\ results' = [results EXCEPT !.buf = Tail(@)]
    /\ UNCHANGED <<callerWorkers, bVars, cmdVars, hVars>>
    /\ UNCHANGED <<fsys, files, numWorkers, jobs, wg, pc, i, worker, sender,
                   closer, ret, attempts, panicked>>

\* Lines 182, 197: the results channel is closed and drained: return.
Return ==
    /\ pc = "collect"
    /\ ~panicked
    /\ results.buf = <<>>
    /\ results.closed
    /\ pc' = "done"
    /\ ret' = <<[result |-> result, err |-> FALSE]>>
    /\ UNCHANGED <<callerWorkers, bVars, cmdVars, hVars>>
    /\ UNCHANGED <<fsys, files, numWorkers, progressBar, result, jobs, results,
                   wg, i, worker, sender, closer, attempts, panicked>>

HFNext ==
    \/ Enter
    \/ StartWorker
    \/ StartSender
    \/ StartCloser
    \/ SenderSend
    \/ SenderClose
    \/ \E w \in Workers : WorkerRecv(w)
    \/ \E w \in Workers : WorkerExit(w)
    \/ \E w \in Workers : WorkerHash(w)
    \/ \E w \in Workers : WorkerSend(w)
    \/ CloserWait
    \/ CloserClose
    \/ Collect
    \/ Return

(***************************************************************************)
(* tree.Build.                                                             *)
(***************************************************************************)
\* FileData, Node and MerkleTree of the tree package; a nil *Node is <<>>, a
\* non-nil one the one-element sequence of the node (Left, Right and Root).
FileData(hash, size, modTime) == [Hash |-> hash, Size |-> size, ModTime |-> modTime]
Node(hash, left, right, path, size, mtime) ==
    [Hash |-> hash, Left |-> left, Right |-> right, Path |-> path,
     Size |-> size, MTime |-> mtime]
MerkleTree(root, rootPath, totalSize, fileMap) ==
    [Root |-> root, RootPath |-> rootPath, TotalSize |-> totalSize,
     Files |-> fileMap]

\* (time.Time).Unix
Unix(t) == t.sec

\* Mutant of EmptyData: the empty map hashes no bytes at all.
EmptyDataNone == <<>>

\* Line 22: the marker hashed for an empty file map.
EmptyData == Bytes(<<"e", "m", "p", "t", "y", "-", "t", "r", "e", "e">>)

\* Lines 45-48: the sum of the sizes, over the map's iteration order.
RECURSIVE TotalSizeOf(_, _)
TotalSizeOf(fileMap, order) ==
    IF order = <<>> THEN 0
    ELSE fileMap[Head(order)].Size + TotalSizeOf(fileMap, Tail(order))

\* Lines 58-65: the path of a leaf, relative to the cleaned root.
RelativePath(path, cleanRoot) ==
    LET cleanPath == Clean(path)
    IN  IF HasPrefix(cleanPath, cleanRoot \o <<Separator>>)
        THEN TrimPrefix(cleanPath, cleanRoot \o <<Separator>>)
        ELSE IF cleanPath = cleanRoot THEN Base(cleanPath)
        ELSE path

\* Mutant of LeafOf: the leaf's hash covers the file's size as well.
LeafOfHashedSize(path, fileData, cleanRoot) ==
    Node(EncodeToString(<<SumBytes(DecodeString(fileData.Hash)
                                    \o <<LitByte(fileData.Size % 256)>>)>>),
         <<>>, <<>>, RelativePath(path, cleanRoot),
         fileData.Size, Unix(fileData.ModTime))

\* Lines 67-73: the leaf of one file: its content hash is the leaf's hash.
LeafOf(path, fileData, cleanRoot) ==
    Node(fileData.Hash, <<>>, <<>>, RelativePath(path, cleanRoot),
         fileData.Size, Unix(fileData.ModTime))

\* Mutant of Combined: the right child's bytes are left out.
CombinedLeftOnly(leftHash, rightHash) == DecodeString(leftHash)

\* Lines 91-93 and 107-108: the bytes hashed for a parent.
Combined(leftHash, rightHash) == DecodeString(leftHash) \o DecodeString(rightHash)

\* Mutant of PairParent: the parent keeps its left child only.
PairParentLeftOnly(leftNode, rightNode) ==
    LET h == XXHashFunc(Combined(leftNode.Hash, rightNode.Hash))
    IN  [node |-> Node(EncodeToString(h.sum), <<leftNode>>, <<>>, <<>>, 0, 0),
         err |-> h.err]

\* Lines 86-103: the parent of two adjacent nodes.
PairParent(leftNode, rightNode) ==
    LET h == XXHashFunc(Combined(leftNode.Hash, rightNode.Hash))
    IN  [node |-> Node(EncodeToString(h.sum), <<leftNode>>, <<rightNode>>, <<>>, 0, 0),
         err |-> h.err]

\* Mutant of OddParent: the odd node is promoted to the next level unpaired.
OddParentPromoted(node) == [node |-> node, err |-> FALSE]

\* Lines 105-118: the parent of the last node of a level of odd length.
OddParent(node) ==
    LET h == XXHashFunc(Combined(node.Hash, node.Hash))
    IN  [node |-> Node(EncodeToString(h.sum), <<node>>, <<node>>, <<>>, 0, 0),
         err |-> h.err]

\* Lines 79-122: the level above currentLevel, from index k on (1-based):
\* [level, err].
RECURSIVE NextLevel(_, _)
NextLevel(currentLevel, k) ==
    IF k > Len(currentLevel) THEN [level |-> <<>>, err |-> FALSE]
    ELSE LET parent == IF k + 1 <= Len(currentLevel)
                       THEN PairParent(currentLevel[k], currentLevel[k + 1])
                       ELSE OddParent(currentLevel[k])
             rest == NextLevel(currentLevel, k + 2)
         IN  IF parent.err THEN [level |-> <<>>, err |-> TRUE]
             ELSE [level |-> <<parent.node>> \o rest.level, err |-> rest.err]

\* Mutant of Collapse: the level is paired once before its length is tested.
RECURSIVE CollapseDoWhile(_)
CollapseDoWhile(currentLevel) ==
    LET next == NextLevel(currentLevel, 1)
    IN  IF next.err THEN [level |-> <<>>, err |-> TRUE]
        ELSE IF Len(next.level) > 1 THEN CollapseDoWhile(next.level)
        ELSE [level |-> next.level, err |-> FALSE]

\* Lines 78-125: collapse the level until one node is left: [level, err].
RECURSIVE Collapse(_)
Collapse(currentLevel) ==
    IF ~(Len(currentLevel) > 1) THEN [level |-> currentLevel, err |-> FALSE]
    ELSE LET next == NextLevel(currentLevel, 1)
         IN  IF next.err THEN [level |-> <<>>, err |-> TRUE]
             ELSE Collapse(next.level)

\* Mutant of Build: the level of leaves is paired once, not until one node
\* is left.
BuildOnePass(fileMap, rootPath, order) ==
    IF Len(order) = 0
    THEN [tree |-> <<MerkleTree(
                       <<Node(EncodeToString(XXHashFunc(EmptyData).sum),
                              <<>>, <<>>, <<>>, 0, 0)>>,
                       rootPath, 0, <<>>)>>,
          err |-> FALSE]
    ELSE LET paths == SortStrings(order)
             leaves == [k \in 1..Len(paths) |->
                          LeafOf(paths[k], fileMap[paths[k]], Clean(rootPath))]
             top == IF Len(leaves) > 1 THEN NextLevel(leaves, 1)
                    ELSE [level |-> leaves, err |-> FALSE]
         IN  [tree |-> <<MerkleTree(<<top.level[1]>>, rootPath,
                                    TotalSizeOf(fileMap, order), fileMap)>>,
              err |-> FALSE]

\* tree.Build(files, rootPath); order is the order in which the range loops
\* visit the keys of the map.  The result is [tree, err], tree being <<>> for
\* nil.
Build(fileMap, rootPath, order) ==
    IF Len(order) = 0
    THEN LET rootHash == XXHashFunc(EmptyData)
         IN  IF rootHash.err THEN [tree |-> <<>>, err |-> TRUE]
             ELSE [tree |-> <<MerkleTree(
                                 <<Node(EncodeToString(rootHash.sum), <<>>, <<>>, <<>>, 0, 0)>>,
                                 rootPath, 0, <<>>)>>,
                   err |-> FALSE]
    ELSE LET paths == SortStrings(order)
             totalSize == TotalSizeOf(fileMap, order)
             cleanRoot == Clean(rootPath)
             leaves == [k \in 1..Len(paths) |->
                          LeafOf(paths[k], fileMap[paths[k]], cleanRoot)]
             top == Collapse(leaves)
         IN  IF top.err THEN [tree |-> <<>>, err |-> TRUE]
             ELSE [tree |-> <<MerkleTree(<<top.level[1]>>, rootPath, totalSize, fileMap)>>,
                   err |-> FALSE]

(***************************************************************************)
(* The calls of Build that are compared: two calls, the second on the      *)
(* arguments of the first or on arguments one edit away from them.         *)
(***************************************************************************)
RootR == <<"/", "r">>
RootS == <<"/", "s">>
\* The roots a tree is built for: the files' directory, another directory,
\* and the root directory.
RootPaths == {RootR, RootS, <<"/">>}

PathDash == <<"/", "r", "/", "a", "-", "b">>
PathDot  == <<"/", "r", "/", "a", ".", "x">>
PathSub  == <<"/", "r", "/", "a", "/", "c">>
PathUp   == <<"/", "r", "/", "B">>
BuildPaths == {PathDash, PathDot, PathSub, PathUp}
\* The files of a larger directory, in the order a walk finds them.
WidePaths == <<PathUp, PathDash, PathDot, PathSub,
               <<"/", "r", "/", "b", "/", "d">>, <<"/", "r", "/", "z">>>>

\* Content hashes: digests as HashFile returns them, and the hashes the
\* package's tests use ("hash1", "hash2"), which are not hex text.
DigestOf(k) == EncodeToString(<<SumBytes(ContentOf(k))>>)
HashA == DigestOf(1)
HashB == DigestOf(2)
HashTest1 == Str(<<"h", "a", "s", "h", "1">>)
HashTest2 == Str(<<"h", "a", "s", "h", "2">>)

FileDatas ==
    { FileData(HashA, 100, Time(1000, 0)),
      FileData(HashB, 200, Time(2000, 5)),
      FileData(HashA, 300, Time(0, 0)),
      FileData(HashTest1, 0, Time(1000, 0)),
      FileData(HashTest2, 200, Time(2000, 5)) }

\* Every file map of at most MaxBuildFiles entries.
SmallMaps ==
    UNION {[D -> FileDatas] :
             D \in {E \in SUBSET BuildPaths : Cardinality(E) <= MaxBuildFiles}}

\* The file maps of the larger directory with 5 and with 6 files, each file
\* with the digest of its own content.
WideMap(n) ==
    [p \in {WidePaths[k] : k \in 1..n} |->
        LET k == CHOOSE j \in 1..n : WidePaths[j] = p
        IN  FileData(DigestOf(k), 10 * k, Time(k, 0))]
WideMaps == {WideMap(n) : n \in {5, 6}}

FileMaps == SmallMaps \cup WideMaps

\* The map without the entry of p, and with the entry p -> fd.
Without(fileMap, p) == [q \in DOMAIN fileMap \ {p} |-> fileMap[q]]
With(fileMap, p, fd) == [q \in DOMAIN fileMap \cup {p} |->
                           IF q = p THEN fd ELSE fileMap[q]]

\* The arguments one edit away from in: another root, one entry replaced,
\* added, removed or moved to another path.
Related(in) ==
    LET D == DOMAIN in.files
    IN  {in}
        \cup {[in EXCEPT !.rootPath = r] : r \in RootPaths}
        \cup {[in EXCEPT !.files = With(in.files, p, fd)] :
                 p \in BuildPaths, fd \in FileDatas}
        \cup {[in EXCEPT !.files = Without(in.files, p)] : p \in D}
        \cup {[in EXCEPT !.files = With(Without(in.files, p), q, in.files[p])] :
                 p \in D, q \in BuildPaths \ D}

\* All orders in which a range loop can visit the keys S of a map.
RECURSIVE Orders(_)
Orders(S) ==
    IF S = {} THEN {<<>>}
    ELSE UNION {{<<p>> \o o : o \in Orders(S \ {p})} : p \in S}

BInit ==
    /\ \E files1 \in FileMaps :
          \E in2 \in Related([files |-> files1, rootPath |-> RootR]) :
             bIn = <<[files |-> files1, rootPath |-> RootR], in2>>
    /\ bOut = <<<<>>, <<>>>>

\* The keys S in descending order.
RECURSIVE Descending(_)
Descending(S) ==
    IF S = {} THEN <<>>
    ELSE LET top == CHOOSE p \in S : \A q \in S \ {p} : StrLess(q, p)
         IN  <<top>> \o Descending(S \ {top})

\* The orders in which the range loops of the k-th call visit the keys S: the
\* first call finds them in descending order, the second in any order.
CallOrders(k, S) == IF k = 1 THEN {Descending(S)} ELSE Orders(S)

\* One call of Build, on the k-th arguments (the second call follows the
\* first); presorted records whether the range loop happened to visit the
\* keys in ascending order.
BuildCall(k) ==
    /\ bIn # <<>>
    /\ bOut[k] = <<>>
    /\ \A j \in 1..(k - 1) : bOut[j] # <<>>
    /\ \E order \in CallOrders(k, DOMAIN bIn[k].files) :
          LET r == Build(bIn[k].files, bIn[k].rootPath, order)
          IN  bOut' = [bOut EXCEPT ![k] =
                         <<[tree |-> r.tree, err |-> r.err,
                            presorted |-> (order = SortStrings(order))]>>]
    /\ UNCHANGED bIn
    /\ UNCHANGED <<hfVars, cmdVars, hVars>>

BNext == \E k \in 1..2 : BuildCall(k)

(***************************************************************************)
(* encoding/json, as Save and Load use it.  A document is a JSON value:    *)
(* null, a string (s, of the tokens of a hash string), a number (n), an    *)
(* object (m, a function from member names to values), or text that is     *)
(* not JSON.                                                               *)
(***************************************************************************)
NoMembers == [name \in {} |-> 0]
JNull == [j |-> "null", s |-> <<>>, n |-> 0, m |-> NoMembers]
JInvalid == [j |-> "invalid", s |-> <<>>, n |-> 0, m |-> NoMembers]
JString(s) == [j |-> "string", s |-> s, n |-> 0, m |-> NoMembers]
JNumber(n) == [j |-> "number", s |-> <<>>, n |-> n, m |-> NoMembers]
JObject(members) == [j |-> "object", s |-> <<>>, n |-> 0, m |-> members]

\* The text of a JSON string as a path; Str(path) is a path as text.
TextPath(s) == [k \in 1..Len(s) |-> s[k].c]

\* strconv.Itoa for n >= 0, as a sequence of characters.
RECURSIVE Itoa(_)
Itoa(n) ==
    IF n < 10 THEN <<Punct[n + 4]>>
    ELSE Itoa(n \div 10) \o <<Punct[(n % 10) + 4]>>

\* fmt.Sprintf("%.2f", bytes / unit) for a power of two unit: the quotient
\* is exact in float64 and is rounded to hundredths, ties to even.
FormatFloat2(bytes, unit) ==
    LET scaled == bytes * 100
        floor == scaled \div unit
        rem == scaled % unit
        h == IF 2 * rem > unit \/ (2 * rem = unit /\ floor % 2 = 1)
             THEN floor + 1 ELSE floor
    IN  Itoa(h \div 100) \o <<".">> \o Itoa((h % 100) \div 10) \o Itoa(h % 10)

\* serializer.go lines 19-36.
formatSize(bytes) ==
    LET KB == 1024
        MB == KB * 1024
        GB == MB * 1024
    IN
    IF bytes >= GB THEN FormatFloat2(bytes, GB) \o <<" ", "G", "B">>
    ELSE IF bytes >= MB THEN FormatFloat2(bytes, MB) \o <<" ", "M", "B">>
    ELSE IF bytes >= KB THEN FormatFloat2(bytes, KB) \o <<" ", "K", "B">>
    ELSE Itoa(bytes) \o <<" ", "B">>

\* (time.Time).MarshalJSON: the RFC 3339 text of an instant, one token.
FormatTime(t) == <<[t |-> "rfc3339", n |-> t.sec, of |-> <<LitByte(t.nsec)>>]>>
\* (*time.Time).UnmarshalJSON: [time, err].
ParseTime(s) ==
    IF Len(s) = 1 /\ s[1].t = "rfc3339"
    THEN [time |-> Time(s[1].n, s[1].of[1].n), err |-> FALSE]
    ELSE [time |-> Time(0, 0), err |-> TRUE]

\* json.Marshal of a *Node that is not nil: the members tagged omitempty are
\* left out when nil, "" or 0.
RECURSIVE MarshalNode(_)
MarshalNode(node) ==
    LET names == {"hash"}
                 \cup (IF node.Left # <<>> THEN {"left"} ELSE {})
                 \cup (IF node.Right # <<>> THEN {"right"} ELSE {})
                 \cup (IF node.Path # <<>> THEN {"path"} ELSE {})
                 \cup (IF node.Size # 0 THEN {"size"} ELSE {})
                 \cup (IF node.MTime # 0 THEN {"mtime"} ELSE {})
    IN  JObject([name \in names |->
                   CASE name = "hash" -> JString(node.Hash)
                     [] name = "left" -> MarshalNode(node.Left[1])
                     [] name = "right" -> MarshalNode(node.Right[1])
                     [] name = "path" -> JString(Str(node.Path))
                     [] name = "size" -> JNumber(node.Size)
                     [] name = "mtime" -> JNumber(node.MTime)])

\* json.MarshalIndent of a SerializedTree.
MarshalSerializedTree(serialized) ==
    JObject([name \in {"generator", "created", "root", "size", "tree"} |->
               CASE name = "generator" -> JString(Str(serialized.Generator))
                 [] name = "created" -> JString(FormatTime(serialized.Created))
                 [] name = "root" -> JString(Str(serialized.Root))
                 [] name = "size" -> JString(Str(serialized.Size))
                 [] name = "tree" -> IF serialized.Tree = <<>> THEN JNull
                                     ELSE MarshalNode(serialized.Tree[1])])

\* Decoding one member into a string or an int64 field: an absent member and
\* null leave the zero value, a value of another kind is an error.
Member(doc, name) == IF name \in DOMAIN doc.m THEN doc.m[name] ELSE JNull
StringField(doc, name) ==
    LET member == Member(doc, name)
    IN  IF member.j = "string" THEN [val |-> member.s, err |-> FALSE]
        ELSE [val |-> <<>>, err |-> member.j # "null"]
IntField(doc, name) ==
    LET member == Member(doc, name)
    IN  IF member.j = "number" THEN [val |-> member.n, err |-> FALSE]
        ELSE [val |-> 0, err |-> member.j # "null"]

\* json.Unmarshal into a *Node: [ptr, err].
RECURSIVE UnmarshalNode(_)
UnmarshalNode(doc) ==
    IF doc.j = "null" THEN [ptr |-> <<>>, err |-> FALSE]
    ELSE IF doc.j # "object" THEN [ptr |-> <<>>, err |-> TRUE]
    ELSE LET hash == StringField(doc, "hash")
             left == UnmarshalNode(Member(doc, "left"))
             right == UnmarshalNode(Member(doc, "right"))
             path == StringField(doc, "path")
             size == IntField(doc, "size")
             mtime == IntField(doc, "mtime")
         IN  [ptr |-> <<Node(hash.val, left.ptr, right.ptr, TextPath(path.val),
                             size.val, mtime.val)>>,
              err |-> hash.err \/ left.err \/ right.err \/ path.err
                        \/ size.err \/ mtime.err]

\* json.Unmarshal into a SerializedTree: [val, err].
UnmarshalSerializedTree(doc) ==
    LET zero == [Generator |-> <<>>, Created |-> Time(0, 0), Root |-> <<>>,
                 Size |-> <<>>, Tree |-> <<>>]
    IN
    IF doc.j = "null" THEN [val |-> zero, err |-> FALSE]
    ELSE IF doc.j # "object" THEN [val |-> zero, err |-> TRUE]
    ELSE LET generator == StringField(doc, "generator")
             createdText == StringField(doc, "created")
             created == IF createdText.err \/ Member(doc, "created").j = "null"
                        THEN [time |-> Time(0, 0), err |-> createdText.err]
                        ELSE ParseTime(createdText.val)
             root == StringField(doc, "root")
             size == StringField(doc, "size")
             tree == UnmarshalNode(Member(doc, "tree"))
         IN  [val |-> [Generator |-> TextPath(generator.val),
                       Created |-> created.time, Root |-> TextPath(root.val),
                       Size |-> TextPath(size.val), Tree |-> tree.ptr],
              err |-> generator.err \/ created.err \/ root.err \/ size.err
                        \/ tree.err]

(***************************************************************************)
(* tree.Save and tree.Load.  A file of the disk is <<>> (absent or         *)
(* unreadable) or <<doc>>.                                                 *)
(***************************************************************************)
\* filepath.Join of two elements.
Join(a, b) ==
    LET elems == SelectSeq(<<a, b>>, LAMBDA e : e # <<>>)
    IN  IF elems = <<>> THEN <<>> ELSE Clean(JoinSep(elems))

\* Save, lines 38-57: [file, err]; file is what the destination holds after
\* the call, given what it held before and whether os.WriteFile succeeds.
Save(tree, before, writable, now) ==
    LET serialized == [Generator |-> <<"m", "e", "r", "k", "l", "e", "-", "g", "o">>,
                       Created |-> now,
                       Root |-> tree.RootPath,
                       Size |-> formatSize(tree.TotalSize),
                       Tree |-> tree.Root]
        data == MarshalSerializedTree(serialized)
    IN  IF ~writable THEN [file |-> before, err |-> TRUE]
        ELSE [file |-> <<data>>, err |-> FALSE]

\* collectLeaves, lines 75-94: acc is [totalSize, files] so far; a leaf with
\* mtime 0 gets no entry of files (line 84).
RECURSIVE collectLeaves(_, _, _)
collectLeaves(ptr, root, acc) ==
    IF ptr = <<>> THEN acc
    ELSE LET node == ptr[1]
             here == IF node.Path # <<>>
                     THEN [totalSize |-> acc.totalSize + node.Size,
                           files |->
                              IF node.MTime # 0
                              THEN With(acc.files, Join(root, node.Path),
                                        FileData(node.Hash, node.Size,
                                                 Time(node.MTime, 0)))
                              ELSE acc.files]
                     ELSE acc
         IN  collectLeaves(node.Right, root, collectLeaves(node.Left, root, here))

\* Load, lines 59-103: [tree, err] from the file at the path.
Load(file) ==
    IF file = <<>> THEN [tree |-> <<>>, err |-> TRUE]
    ELSE LET serialized == UnmarshalSerializedTree(file[1])
             acc == collectLeaves(serialized.val.Tree, serialized.val.Root,
                                  [totalSize |-> 0, files |-> <<>>])
         IN  IF serialized.err THEN [tree |-> <<>>, err |-> TRUE]
             ELSE [tree |-> <<MerkleTree(serialized.val.Tree, serialized.val.Root,
                                         acc.totalSize, acc.files)>>,
                   err |-> FALSE]

(***************************************************************************)
(* compare.Compare, HasChanges and FormatReport.  A report is a string of  *)
(* the same tokens as a hash string.                                       *)
(***************************************************************************)
\* Mutant of Change: a side that is missing is filled with the other side.
ChangeFillsBoth(type, path, oldData, newData) ==
    [Type |-> type, Path |-> path,
     OldData |-> IF oldData = <<>> THEN newData ELSE oldData,
     NewData |-> IF newData = <<>> THEN oldData ELSE newData]

\* Change: Type is "ADDED", "MODIFIED" or "DELETED"; OldData and NewData are
\* pointers, <<>> for nil.
Change(type, path, oldData, newData) ==
    [Type |-> type, Path |-> path, OldData |-> oldData, NewData |-> newData]

\* Lines 43-65: Added and Modified, over the iteration order of newTree.Files.
RECURSIVE ScanNew(_, _, _, _)
ScanNew(oldFiles, newFiles, order, acc) ==
    IF order = <<>> THEN acc
    ELSE LET path == Head(order)
             newData == newFiles[path]
             next ==
                IF path \in DOMAIN oldFiles
                THEN IF oldFiles[path].Hash # newData.Hash
                     THEN [acc EXCEPT !.Modified =
                              Append(@, Change("MODIFIED", path,
                                               <<oldFiles[path]>>, <<newData>>))]
                     ELSE acc
                ELSE [acc EXCEPT !.Added =
                         Append(@, Change("ADDED", path, <<>>, <<newData>>))]
         IN  ScanNew(oldFiles, newFiles, Tail(order), next)

\* Lines 68-77: Deleted, over the iteration order of oldTree.Files.
RECURSIVE ScanOld(_, _, _, _)
ScanOld(oldFiles, newFiles, order, acc) ==
    IF order = <<>> THEN acc
    ELSE LET path == Head(order)
             next ==
                IF ~(path \in DOMAIN newFiles)
                THEN [acc EXCEPT !.Deleted =
                         Append(@, Change("DELETED", path,
                                          <<oldFiles[path]>>, <<>>))]
                ELSE acc
         IN  ScanOld(oldFiles, newFiles, Tail(order), next)

\* Mutant of SortByPath: the changes stay in the order they were appended.
SortByPathOff(changes) == changes

\* Lines 80-88: sort.Slice by Path.
RECURSIVE SortByPath(_)
SortByPath(changes) ==
    IF changes = <<>> THEN <<>>
    ELSE LET rest == SortByPath(Tail(changes))
             c == Head(changes)
             before == SelectSeq(rest, LAMBDA d : ~StrLess(c.Path, d.Path))
             after == SelectSeq(rest, LAMBDA d : StrLess(c.Path, d.Path))
         IN  before \o <<c>> \o after

\* Mutant of Compare: a file is modified when its hash or its size differs.
CompareBySize(oldTree, newTree, newOrder, oldOrder) ==
    LET empty == [Added |-> <<>>, Modified |-> <<>>, Deleted |-> <<>>]
        grown == {p \in DOMAIN oldTree.Files \cap DOMAIN newTree.Files :
                    oldTree.Files[p].Size # newTree.Files[p].Size}
        found == ScanOld(oldTree.Files, newTree.Files, oldOrder,
                           ScanNew(oldTree.Files, newTree.Files, newOrder, empty))
        sized == SelectSeq(newOrder, LAMBDA p :
                    p \in grown /\ oldTree.Files[p].Hash = newTree.Files[p].Hash)
    IN  [Added |-> SortByPath(found.Added),
         Modified |-> SortByPath(found.Modified \o
                         [k \in 1..Len(sized) |->
                            Change("MODIFIED", sized[k],
                                   <<oldTree.Files[sized[k]]>>,
                                   <<newTree.Files[sized[k]]>>)]),
         Deleted |-> SortByPath(found.Deleted)]

\* Compare, lines 35-91; newOrder and oldOrder are the orders in which the
\* two range loops visit the keys of newTree.Files and of oldTree.Files.
Compare(oldTree, newTree, newOrder, oldOrder) ==
    LET empty == [Added |-> <<>>, Modified |-> <<>>, Deleted |-> <<>>]
        found == ScanOld(oldTree.Files, newTree.Files, oldOrder,
                           ScanNew(oldTree.Files, newTree.Files, newOrder, empty))
    IN  [Added |-> SortByPath(found.Added),
         Modified |-> SortByPath(found.Modified),
         Deleted |-> SortByPath(found.Deleted)]

\* Mutant of HasChanges: deletions alone are not changes.
HasChangesNoDeleted(r) == Len(r.Added) > 0 \/ Len(r.Modified) > 0

\* HasChanges, lines 31-33.
HasChanges(r) == Len(r.Added) > 0 \/ Len(r.Modified) > 0 \/ Len(r.Deleted) > 0

\* fmt verbs: %d of a count or size, and the date of
\* (time.Time).Format("2006-01-02"), one token; %s of a path is Str(path).
FmtInt(n) == Str(Itoa(n))
FmtDate(t) == <<[t |-> "date", n |-> t.sec \div 86400, of |-> <<>>]>>

\* The literal text of the format strings of FormatReport.
ReportText ==
    [ noChanges |->
        Str(<<"N", "o", " ", "c", "h", "a", "n", "g", "e", "s", " ", "d",
              "e", "t", "e", "c", "t", "e", "d", ".">>),
      changes |->
        Str(<<"C", "h", "a", "n", "g", "e", "s", " ", "d", "e", "t", "e",
              "c", "t", "e", "d", ":", "\n", "\n">>),
      files |->
        Str(<<" ", "f", "i", "l", "e", "s", ")", ":", "\n">>),
      hash |->
        Str(<<" ", "(", "h", "a", "s", "h", ":", " ">>),
      size |->
        Str(<<",", " ", "s", "i", "z", "e", ":", " ">>),
      bytes |->
        Str(<<" ", "b", "y", "t", "e", "s", ")", "\n">>),
      old |->
        Str(<<" ", " ", " ", " ", "O", "l", "d", ":", " ", "h", "a", "s",
              "h", "=">>),
      new |->
        Str(<<" ", " ", " ", " ", "N", "e", "w", ":", " ", "h", "a", "s",
              "h", "=">>),
      sizeEq |->
        Str(<<",", " ", "s", "i", "z", "e", "=">>),
      modifiedEq |->
        Str(<<" ", "b", "y", "t", "e", "s", ",", " ", "m", "o", "d", "i",
              "f", "i", "e", "d", "=">>),
      summary |->
        Str(<<"S", "u", "m", "m", "a", "r", "y", ":", " ">>),
      added |->
        Str(<<" ", "a", "d", "d", "e", "d", ",", " ">>),
      modified |->
        Str(<<" ", "m", "o", "d", "i", "f", "i", "e", "d", ",", " ">>),
      deleted |->
        Str(<<" ", "d", "e", "l", "e", "t", "e", "d", "\n">>),
      newLine |->
        Str(<<"\n">>) ]

\* Lines 102-105 and 123-126: the lines of the added or deleted files.
RECURSIVE FileLines(_, _, _)
FileLines(changes, mark, old) ==
    IF changes = <<>> THEN <<>>
    ELSE LET change == Head(changes)
             data == IF old THEN change.OldData[1] ELSE change.NewData[1]
         IN  Str(mark) \o Str(change.Path) \o ReportText.hash \o data.Hash
             \o ReportText.size \o FmtInt(data.Size) \o ReportText.bytes
             \o FileLines(Tail(changes), mark, old)

\* Lines 111-117: the lines of the modified files.
RECURSIVE ModifiedLines(_)
ModifiedLines(changes) ==
    IF changes = <<>> THEN <<>>
    ELSE LET change == Head(changes)
             oldData == change.OldData[1]
             newData == change.NewData[1]
         IN  Str(<<" ", " ", "~", " ">>) \o Str(change.Path) \o ReportText.newLine
             \o ReportText.old \o oldData.Hash \o ReportText.sizeEq \o FmtInt(oldData.Size)
             \o ReportText.modifiedEq \o FmtDate(oldData.ModTime) \o ReportText.newLine
             \o ReportText.new \o newData.Hash \o ReportText.sizeEq \o FmtInt(newData.Size)
             \o ReportText.modifiedEq \o FmtDate(newData.ModTime) \o ReportText.newLine
             \o ModifiedLines(Tail(changes))

\* The heading of one section: "ADDED (2 files):\n".
Heading(type, n) ==
    Str(<<type>>) \o Str(<<" ", "(">>) \o FmtInt(n) \o ReportText.files

\* FormatReport, lines 93-134.
FormatReport(r) ==
    IF ~HasChanges(r) THEN ReportText.noChanges
    ELSE ReportText.changes
         \o (IF Len(r.Added) > 0
             THEN Heading("ADDED", Len(r.Added))
                  \o FileLines(r.Added, <<" ", " ", "+", " ">>, FALSE) \o ReportText.newLine
             ELSE <<>>)
         \o (IF Len(r.Modified) > 0
             THEN Heading("MODIFIED", Len(r.Modified))
                  \o ModifiedLines(r.Modified) \o ReportText.newLine
             ELSE <<>>)
         \o (IF Len(r.Deleted) > 0
             THEN Heading("DELETED", Len(r.Deleted))
                  \o FileLines(r.Deleted, <<" ", " ", "-", " ">>, TRUE) \o ReportText.newLine
             ELSE <<>>)
         \o ReportText.summary \o FmtInt(Len(r.Added)) \o ReportText.added
         \o FmtInt(Len(r.Modified)) \o ReportText.modified
         \o FmtInt(Len(r.Deleted)) \o ReportText.deleted

(***************************************************************************)
(* The two commands of main.go on one directory: generateTree builds the   *)
(* tree of the directory and saves it, compareTree loads a tree file,      *)
(* scans the directory again, compares and exits.                          *)
(***************************************************************************)
\* The instant time.Now() returns in Save.
Now == Time(5000, 7)

\* Modification times of files: the epoch itself, a whole second, and an
\* instant with nanoseconds.
ScanFileDatas ==
    { FileData(HashA, 300, Time(0, 0)),
      FileData(HashA, 100, Time(1000, 0)),
      FileData(HashB, 200, Time(2000, 5)) }

\* The files a walk of the directory finds, with their content hashes.
ScanMaps ==
    UNION {[D -> ScanFileDatas] :
             D \in {E \in SUBSET BuildPaths : Cardinality(E) <= MaxScanFiles}}
    \cup WideMaps

\* The directory as compareTree finds it: as it was, or one file changed,
\* created or removed since.
Rescans(fileMap) ==
    {fileMap}
    \cup {With(fileMap, p, fd) : p \in BuildPaths, fd \in ScanFileDatas}
    \cup {Without(fileMap, p) : p \in DOMAIN fileMap}

\* What the file at the tree path can hold when it is not what Save wrote:
\* text that is not JSON, JSON of another shape, an object without a tree,
\* and a tree whose node lacks its hash.
ForeignFiles ==
    { <<JInvalid>>,
      <<JNumber(7)>>,
      <<JString(Str(RootR))>>,
      <<JNull>>,
      <<JObject([name \in {"root"} |-> JString(Str(RootR))])>>,
      <<JObject([name \in {"tree"} |-> JString(Str(RootR))])>>,
      <<JObject([name \in {"root", "tree"} |->
                   IF name = "root" THEN JString(Str(RootR))
                   ELSE JObject([member \in {"path", "mtime"} |->
                                   IF member = "path" THEN JString(Str(<<"B">>))
                                   ELSE JNumber(1000)])])>> }

\* The orders in which the range loops of Compare visit the keys: those of
\* the new map in any order (of a larger map descending or ascending), those
\* of the old map descending or ascending.
EndOrders(S) == {Descending(S), SortStrings(Descending(S))}
RangeOrders(S) ==
    IF Cardinality(S) <= OrdersUpTo THEN Orders(S) ELSE EndOrders(S)

CmdInit ==
    /\ \E files1 \in ScanMaps :
          \E files2 \in Rescans(files1) :
             cmdIn = [gen |-> [files |-> files1, rootPath |-> RootR],
                      cmp |-> [files |-> files2, rootPath |-> RootR]]
    /\ disk = <<>>
    /\ genOut = <<>>
    /\ loaded = <<>>
    /\ scanned = <<>>
    /\ cmpOut = <<>>
    /\ exit = <<>>
    /\ cmdPc = "generate"

\* generateTree, lines 555-577: the tree of the directory is built and saved;
\* the destination may not be writable.
Generate ==
    /\ cmdPc = "generate"
    /\ \E writable \in BOOLEAN :
          LET built == Build(cmdIn.gen.files, cmdIn.gen.rootPath,
                             Descending(DOMAIN cmdIn.gen.files))
              saved == Save(built.tree[1], disk, writable, Now)
          IN  /\ disk' = saved.file
              /\ genOut' = <<[tree |-> built.tree, err |-> saved.err]>>
    /\ cmdPc' = "load"
    /\ UNCHANGED <<cmdIn, loaded, scanned, cmpOut, exit>>
    /\ UNCHANGED <<hfVars, bVars, hVars>>

\* compareTree, lines 631-637: the tree file is loaded: the one generateTree
\* wrote, or another file.  An error goes to main, which exits with 1; the
\* root hash of the loaded tree is then printed, first 16 characters (the
\* length of a hash in characters is 16 per digest).
HashLen(hash) ==
    Cardinality({k \in 1..Len(hash) : hash[k].t = "sumhex"}) * 16
    + Cardinality({k \in 1..Len(hash) : hash[k].t # "sumhex"})
CmpLoad ==
    /\ cmdPc = "load"
    /\ \E file \in {disk} \cup ForeignFiles :
          LET old == Load(file)
          IN  /\ loaded' = <<[tree |-> old.tree, err |-> old.err, file |-> file]>>
              /\ IF old.err
                 THEN /\ exit' = <<[code |-> 1, by |-> "main"]>>
                      /\ cmdPc' = "done"
                 ELSE IF old.tree[1].Root = <<>>
                         \/ HashLen(old.tree[1].Root[1].Hash) < 16
                 THEN /\ exit' = <<[code |-> 2, by |-> "panic"]>>
                      /\ cmdPc' = "done"
                 ELSE /\ exit' = exit
                      /\ cmdPc' = "scan"
    /\ UNCHANGED <<cmdIn, disk, genOut, scanned, cmpOut>>
    /\ UNCHANGED <<hfVars, bVars, hVars>>

\* compareTree, lines 648-683: the directory is walked, its files hashed
\* (failed is the set of paths HashFiles reports an error for) and the new
\* tree built from the files that were hashed.
CmpScan ==
    /\ cmdPc = "scan"
    /\ \E failed \in {{}} \cup {{p} : p \in DOMAIN cmdIn.cmp.files} :
          LET fileDataMap == [p \in DOMAIN cmdIn.cmp.files \ failed |->
                                cmdIn.cmp.files[p]]
              built == Build(fileDataMap, cmdIn.cmp.rootPath,
                             Descending(DOMAIN fileDataMap))
          IN  /\ scanned' = <<[Errors |-> failed, tree |-> built.tree,
                               err |-> built.err]>>
              /\ IF built.err
                 THEN /\ exit' = <<[code |-> 1, by |-> "main"]>>
                      /\ cmdPc' = "done"
                 ELSE /\ exit' = exit
                      /\ cmdPc' = "compare"
    /\ UNCHANGED <<cmdIn, disk, genOut, loaded, cmpOut>>
    /\ UNCHANGED <<hfVars, bVars, hVars>>

\* compareTree, lines 696-702: the exit status.
ExitCode(errors, changes) ==
    IF errors > 0 THEN 2 ELSE IF changes THEN 1 ELSE 0

\* compareTree, lines 686-702: the trees are compared, the report printed
\* and the process exits.
CmpCompare ==
    /\ cmdPc = "compare"
    /\ \E newOrder \in RangeOrders(DOMAIN scanned[1].tree[1].Files) :
          \E oldOrder \in EndOrders(DOMAIN loaded[1].tree[1].Files) :
             LET r == Compare(loaded[1].tree[1], scanned[1].tree[1],
                              newOrder, oldOrder)
             IN  /\ cmpOut' = <<[result |-> r, report |-> FormatReport(r),
                                 changes |-> HasChanges(r),
                                 presorted |-> newOrder = SortStrings(newOrder)
                                               /\ oldOrder = SortStrings(oldOrder)]>>
                 /\ exit' = <<[code |-> ExitCode(Cardinality(scanned[1].Errors),
                                                 HasChanges(r)),
                               by |-> "compareTree"]>>
    /\ cmdPc' = "done"
    /\ UNCHANGED <<cmdIn, disk, genOut, loaded, scanned>>
    /\ UNCHANGED <<hfVars, bVars, hVars>>

CmdNext ==
    \/ Generate
    \/ CmpLoad
    \/ CmpScan
    \/ CmpCompare

(***************************************************************************)
(* hash.HashFile, read by read.                                            *)
(***************************************************************************)
\* The contents of a file: up to MaxContent bytes.
Contents == UNION {[1..n -> {LitByte(1), LitByte(2)}] : n \in 0..MaxContent}

HInit ==
    /\ \E data \in Contents, readable \in BOOLEAN :
          hIn = [data |-> data, readable |-> readable]
    /\ hBuf = [k \in 1..bufferSize |-> LitByte(0)]
    /\ hAcc = <<>>
    /\ hOff = 0
    /\ hPc = "open"
    /\ hRet = <<>>

\* Lines 17-24: os.Open fails on a file that cannot be opened.
HOpen ==
    /\ hPc = "open"
    /\ IF ~hIn.readable
       THEN /\ hRet' = <<[hash |-> <<>>, err |-> TRUE]>>
            /\ hPc' = "done"
       ELSE /\ hRet' = hRet
            /\ hPc' = "read"
    /\ UNCHANGED <<hIn, hBuf, hAcc, hOff>>
    /\ UNCHANGED <<hfVars, bVars, cmdVars>>

\* Mutant of Written: the whole buffer is written, not its first n bytes.
WrittenWholeBuffer(buf, n) == buf

\* Line 29: buf[:n]
Written(buf, n) == SubSeq(buf, 1, n)

\* (*os.File).Read into buf at offset off, n bytes: the buffer afterwards.
ReadInto(buf, data, off, n) ==
    [k \in 1..Len(buf) |-> IF k <= n THEN data[off + k] ELSE buf[k]]

\* Lines 27-30, a read that returns n > 0 bytes and no error: any number of
\* bytes up to the size of the buffer and to what is left of the file.
HReadSome ==
    /\ hPc = "read"
    /\ \E n \in 1..bufferSize :
          /\ hOff + n <= Len(hIn.data)
          /\ hBuf' = ReadInto(hBuf, hIn.data, hOff, n)
          /\ hAcc' = hAcc \o Written(hBuf', n)
          /\ hOff' = hOff + n
    /\ UNCHANGED <<hIn, hPc, hRet>>
    /\ UNCHANGED <<hfVars, bVars, cmdVars>>

\* Lines 27-39, the read at the end of the file: 0 bytes and io.EOF; the
\* digest of what was written is returned as hex.
HReadEOF ==
    /\ hPc = "read"
    /\ hOff = Len(hIn.data)
    /\ hRet' = <<[hash |-> EncodeToString(<<SumBytes(hAcc)>>), err |-> FALSE]>>
    /\ hPc' = "done"
    /\ UNCHANGED <<hIn, hBuf, hAcc, hOff>>
    /\ UNCHANGED <<hfVars, bVars, cmdVars>>

\* Lines 27-36, a read that fails: 0 bytes and an error other than io.EOF.
HReadError ==
    /\ hPc = "read"
    /\ hRet' = <<[hash |-> <<>>, err |-> TRUE]>>
    /\ hPc' = "done"
    /\ UNCHANGED <<hIn, hBuf, hAcc, hOff>>
    /\ UNCHANGED <<hfVars, bVars, cmdVars>>

HNext ==
    \/ HOpen
    \/ HReadSome
    \/ HReadEOF
    \/ HReadError

\* The variables of the part that is not running.
HFIdle ==
    /\ fsys = <<>>
    /\ files = <<>>
    /\ callerWorkers = 0
    /\ numWorkers = 0
    /\ progressBar = <<>>
    /\ result = [Hashes |-> <<>>, Errors |-> <<>>]
    /\ jobs = NoChan
    /\ results = NoChan
    /\ wg = 0
    /\ pc = "off"
    /\ i = 0
    /\ worker = [w \in Workers |-> Idle]
    /\ sender = [pc |-> "none", next |-> 1]
    /\ closer = "none"
    /\ ret = <<>>
    /\ attempts = <<>>
    /\ panicked = FALSE
BIdle ==
    /\ bIn = <<>>
    /\ bOut = <<>>
CmdIdle ==
    /\ cmdIn = <<>>
    /\ disk = <<>>
    /\ genOut = <<>>
    /\ loaded = <<>>
    /\ scanned = <<>>
    /\ cmpOut = <<>>
    /\ exit = <<>>
    /\ cmdPc = "off"
HIdle ==
    /\ hIn = <<>>
    /\ hBuf = <<>>
    /\ hAcc = <<>>
    /\ hOff = 0
    /\ hPc = "off"
    /\ hRet = <<>>

(***************************************************************************)
(* Specifications.                                                         *)
(***************************************************************************)
Init == HFInit /\ BIdle /\ CmdIdle /\ HIdle
Next == HFNext
\* One call of HashFiles.
Spec == Init /\ [][Next]_vars

\* The Go scheduler runs a goroutine that can take a step: HashFiles does not
\* stop while one of its goroutines can move.
Fairness == WF_vars(Next)
FairSpec == Spec /\ Fairness

\* Two calls of Build.
BuildInit == BInit /\ HFIdle /\ CmdIdle /\ HIdle
BuildSpec == BuildInit /\ [][BNext]_vars

\* generateTree and then compareTree on one directory.
CommandInit == CmdInit /\ HFIdle /\ BIdle /\ HIdle
CommandSpec == CommandInit /\ [][CmdNext]_vars

\* One call of HashFile.
HashInit == HInit /\ HFIdle /\ BIdle /\ CmdIdle
HashSpec == HashInit /\ [][HNext]_vars

(***************************************************************************)
(* Properties of HashFiles.                                                *)
(***************************************************************************)
\* The number of descriptors of the batch that name path p.
Occurrences(p) == Cardinality({k \in 1..Len(files) : files[k].Path = p})
InputPaths == {files[k].Path : k \in 1..Len(files)}
DistinctPaths == \A p \in InputPaths : Occurrences(p) = 1
Returned == pc = "done"
ErrorPaths(r) == {r.Errors[k].path : k \in 1..Len(r.Errors)}
ErrorsFor(r, p) == Cardinality({k \in 1..Len(r.Errors) : r.Errors[k].path = p})
StartedWorkers == {w \in Workers : worker[w].pc # "none"}

\* C1: when HashFiles returns on a batch of N descriptors with distinct paths,
\* every input path is a key of Hashes or the tag of an error, never both, and
\* |Hashes| + |Errors| = N.
C1_EveryFileInHashesOrErrors ==
    (Returned /\ DistinctPaths) =>
        LET r == ret[1].result
        IN  /\ \A p \in InputPaths :
                  (p \in DOMAIN r.Hashes) # (p \in ErrorPaths(r))
            /\ Cardinality(DOMAIN r.Hashes) + Len(r.Errors) = Len(files)

C1_Witness ==
    /\ Returned /\ DistinctPaths
    /\ Len(files) >= 3
    /\ numWorkers >= 2
    /\ Len(ret[1].result.Errors) >= 1
    /\ Cardinality(DOMAIN ret[1].result.Hashes) >= 2

\* Every goroutine HashFiles started has run to its end.
AllGoroutinesExited ==
    /\ sender.pc \in {"none", "exit"}
    /\ closer \in {"none", "exit"}
    /\ \A w \in Workers : worker[w].pc \in {"none", "exit"}
    /\ Len(files) > 0 =>
          /\ sender.pc = "exit" /\ closer = "exit"
          /\ Cardinality(StartedWorkers) = numWorkers
EveryFileAttempted == \A p \in FilePaths : attempts[p] = Occurrences(p)

\* C2: under fair scheduling HashFiles returns for every batch and worker
\* count, and when it has returned the sender, every worker and the closing
\* goroutine have exited, nothing has panicked and every descriptor has been
\* attempted.
C2_AlwaysReturns ==
    /\ <>Returned
    /\ [](Returned => (AllGoroutinesExited /\ EveryFileAttempted /\ ~panicked))

C2_Witness ==
    /\ Returned
    /\ Len(files) >= 1
    /\ numWorkers > Len(files)
    /\ AllGoroutinesExited

\* The paths of the batch that cannot be hashed.
Failing == {p \in InputPaths : ~fsys[p].readable}

\* C3: HashFiles returns no call-level error; Hashes holds exactly the paths
\* that can be hashed, each with the digest of its content, and Errors holds
\* one error per descriptor that cannot, tagged with its path: an outcome that
\* depends on the batch and the file system alone.  With distinct paths that
\* is N - |F| hashes and |F| errors.
C3_SkipAndReport ==
    Returned =>
        LET r == ret[1].result
        IN  /\ ~ret[1].err
            /\ DOMAIN r.Hashes = InputPaths \ Failing
            /\ \A p \in DOMAIN r.Hashes :
                  r.Hashes[p] = EncodeToString(<<SumBytes(fsys[p].data)>>)
            /\ \A p \in FilePaths :
                  ErrorsFor(r, p) = IF p \in Failing THEN Occurrences(p) ELSE 0
            /\ ErrorPaths(r) \subseteq FilePaths
            /\ DistinctPaths =>
                  /\ Cardinality(DOMAIN r.Hashes) = Len(files) - Cardinality(Failing)
                  /\ Len(r.Errors) = Cardinality(Failing)

C3_Witness ==
    /\ Returned /\ DistinctPaths
    /\ Len(files) = 3
    /\ Cardinality(Failing) = 1
    /\ Len(ret[1].result.Errors) = 1
    /\ Cardinality(DOMAIN ret[1].result.Hashes) = 2
    /\ numWorkers = 2

\* The descriptors naming p that the sender has put on the jobs queue, that
\* wait on it, and that a worker holds without having hashed them yet.
Sent(p) == Cardinality({k \in 1..(sender.next - 1) : files[k].Path = p})
Queued(p) == Cardinality({k \in 1..Len(jobs.buf) : jobs.buf[k].fileInfo.Path = p})
Held(p) == Cardinality({w \in Workers :
                          /\ worker[w].pc = "hash"
                          /\ worker[w].job[1].fileInfo.Path = p})

\* C4: every descriptor put on the jobs queue is on the queue, in the hands of
\* one worker or hashed, exactly once: HashFile is never called more often on a
\* path than the batch names it, and exactly that often when HashFiles returns.
C4_HashedExactlyOnce ==
    pc \in {"spawn", "spawnCloser", "collect", "done"} =>
        \A p \in FilePaths :
            /\ Sent(p) = Queued(p) + Held(p) + attempts[p]
            /\ attempts[p] <= Occurrences(p)
            /\ Returned => attempts[p] = Occurrences(p)

C4_Witness ==
    /\ Returned
    /\ Len(files) >= 2
    /\ Failing # {}
    /\ Cardinality(StartedWorkers) >= 2
    /\ \A p \in InputPaths : attempts[p] = 1

\* C5: a worker count <= 0 is coerced to 1: exactly one worker is started,
\* and HashFiles returns with every input path in Hashes or Errors.
C5_NonPositiveWorkersCoercedToOne ==
    callerWorkers <= 0 =>
        /\ pc \in {"spawn", "spawnCloser", "collect", "done"} => numWorkers = 1
        /\ Cardinality(StartedWorkers) <= 1
        /\ (pc \in {"spawnCloser", "collect"} \/ (Returned /\ Len(files) > 0)) =>
              Cardinality(StartedWorkers) = 1
        /\ Returned =>
              /\ ~panicked
              /\ InputPaths = DOMAIN ret[1].result.Hashes \cup ErrorPaths(ret[1].result)

C5_Witness ==
    /\ callerWorkers < 0
    /\ Returned
    /\ Len(files) >= 2
    /\ Cardinality(StartedWorkers) = 1
    /\ ret[1].result.Errors # <<>>
    /\ DOMAIN ret[1].result.Hashes # {}

\* C25: the jobs channel is closed only once the sender has sent every job;
\* the results channel is closed only once every worker was started and has
\* exited; no goroutine sends on (or closes) a closed channel; and at the
\* return nothing is left in the results channel or in a worker's hands:
\* every file was attempted as often as it was named, and each attempt's
\* result was recorded.
C25_ChannelProtocol ==
    /\ ~panicked
    /\ jobs.closed => (sender.pc = "exit" /\ sender.next = Len(files) + 1)
    /\ (closer = "close" \/ results.closed) =>
          /\ i = numWorkers /\ wg = 0
          /\ \A w \in Workers : worker[w].pc \in {"none", "exit"}
          /\ \A w \in 1..numWorkers : worker[w].pc = "exit"
          /\ jobs.closed /\ jobs.buf = <<>>
    /\ (Returned /\ Len(files) > 0) =>
          /\ results.closed /\ results.buf = <<>>
          /\ \A w \in Workers : worker[w].res = <<>>
          /\ \A p \in FilePaths :
                /\ attempts[p] = Occurrences(p)
                /\ ErrorsFor(ret[1].result, p) =
                      (IF fsys[p].readable THEN 0 ELSE attempts[p])
                /\ (fsys[p].readable /\ attempts[p] > 0) =>
                      p \in DOMAIN ret[1].result.Hashes

C25_Witness ==
    /\ Returned /\ ~panicked
    /\ Len(files) = MaxFiles /\ numWorkers = MaxWorkers
    /\ results.closed /\ jobs.closed
    /\ Len(ret[1].result.Errors) = 1
    /\ Cardinality(DOMAIN ret[1].result.Hashes) = MaxFiles - 1

\* C26: the result is written by the calling goroutine alone: by no step
\* other than its receiving of one result from the results channel, which
\* sets one key of Hashes or appends one error to Errors, for the result at
\* the head of the channel; so Errors is in the order in which the failed
\* results arrived.
C26_OnlyTheCollectorWrites ==
    [][result' # result =>
         /\ Collect
         /\ pc = "collect" /\ results.buf # <<>>
         /\ LET r == Head(results.buf)
            IN  IF r.err
                THEN /\ result'.Errors = Append(result.Errors, TaggedError(r.path))
                     /\ result'.Hashes = result.Hashes
                ELSE /\ result'.Errors = result.Errors
                     /\ result'.Hashes = (r.path :> r.hash) @@ result.Hashes]_vars

\* The errors came back in another order than the files were handed in.
C26_Witness ==
    /\ Returned
    /\ Len(files) = MaxFiles
    /\ Len(ret[1].result.Errors) = 2
    /\ ret[1].result.Errors[1].path = files[2].Path
    /\ ret[1].result.Errors[2].path = files[1].Path

\* C27: both channels hold len(files) elements, so the sender never finds
\* the jobs channel full and a worker never finds the results channel full:
\* the jobs sent and not yet taken, and the results sent and not yet
\* received together with those about to be sent, never exceed the capacity.
C27_NoSendBlocks ==
    /\ jobs.made => (jobs.cap = Len(files) /\ results.cap = Len(files))
    /\ (sender.pc = "send" /\ sender.next <= Len(files)) =>
          Len(jobs.buf) < jobs.cap
    /\ \A w \in Workers : worker[w].pc = "send" => Len(results.buf) < results.cap
    /\ Len(results.buf) + Cardinality({w \in Workers : worker[w].pc \in {"hash", "send"}})
          + Len(jobs.buf) <= Len(files)

\* One worker is still reading its file while the other has hashed every
\* other file, sent the results and exited, before the caller received any.
C27_Witness ==
    /\ Len(files) = MaxFiles /\ numWorkers = MaxWorkers
    /\ worker[1].pc = "hash" /\ worker[2].pc = "exit"
    /\ Len(results.buf) = MaxFiles - 1
    /\ result = [Hashes |-> <<>>, Errors |-> <<>>]
    /\ pc # "done"

(***************************************************************************)
(* Properties of Build.                                                    *)
(***************************************************************************)
Built(k) == bIn # <<>> /\ bOut[k] # <<>>
BothBuilt == Built(1) /\ Built(2)
FilesOf(k) == bIn[k].files
TreeOf(k) == bOut[k][1].tree[1]
RootHashOf(k) == TreeOf(k).Root[1].Hash

\* C6: two calls of Build on the same non-empty mapping and root path return
\* the same tree (the same root hash, the same shape), whatever the orders in
\* which the two calls' range loops visited the map.
C6_BuildIndependentOfOrder ==
    (BothBuilt /\ bIn[1] = bIn[2] /\ DOMAIN FilesOf(1) # {}) =>
        /\ ~bOut[1][1].err /\ ~bOut[2][1].err
        /\ RootHashOf(1) = RootHashOf(2)
        /\ TreeOf(1).Root = TreeOf(2).Root

C6_Witness ==
    /\ BothBuilt /\ bIn[1] = bIn[2]
    /\ Cardinality(DOMAIN FilesOf(1)) >= 3
    /\ ~bOut[1][1].presorted /\ bOut[2][1].presorted
    /\ RootHashOf(1) = RootHashOf(2)

\* A content hash as HashFile returns it: the lowercase hex of one digest.
IsDigest(h) == Len(h) = 1 /\ h[1].t = "sumhex"
AllDigests(fileMap) == \A p \in DOMAIN fileMap : IsDigest(fileMap[p].Hash)
\* The paths whose content hash differs between the two maps.
ChangedHashes == {p \in DOMAIN FilesOf(1) \cap DOMAIN FilesOf(2) :
                    FilesOf(1)[p].Hash # FilesOf(2)[p].Hash}

\* C7: when the two file maps hold digests and differ in the content hash of
\* exactly one file (same paths), the two root hashes differ.
C7_LeafChangeChangesRoot ==
    (/\ BothBuilt
     /\ DOMAIN FilesOf(1) = DOMAIN FilesOf(2)
     /\ AllDigests(FilesOf(1)) /\ AllDigests(FilesOf(2))
     /\ Cardinality(ChangedHashes) = 1)
    => RootHashOf(1) # RootHashOf(2)

C7_Witness ==
    /\ BothBuilt
    /\ DOMAIN FilesOf(1) = DOMAIN FilesOf(2)
    /\ Cardinality(DOMAIN FilesOf(1)) >= 5
    /\ AllDigests(FilesOf(1)) /\ AllDigests(FilesOf(2))
    /\ Cardinality(ChangedHashes) = 1
    /\ RootHashOf(1) # RootHashOf(2)

\* C8: two file maps (of digests) that differ in the set of paths or in some
\* file's content hash build trees with different root hashes.
C8_DifferentInputsDifferentRoot ==
    (/\ BothBuilt
     /\ AllDigests(FilesOf(1)) /\ AllDigests(FilesOf(2))
     /\ (DOMAIN FilesOf(1) # DOMAIN FilesOf(2) \/ ChangedHashes # {}))
    => RootHashOf(1) # RootHashOf(2)

\* H(x || y) of the specification: the hex digest of the bytes of x followed
\* by the bytes of y.
HH(x, y) == EncodeToString(<<SumBytes(DecodeString(x) \o DecodeString(y))>>)
\* The content hashes of the k-th call's files, in ascending path order.
LeafHashes(k) ==
    LET paths == SortStrings(Descending(DOMAIN FilesOf(k)))
    IN  [j \in 1..Len(paths) |-> FilesOf(k)[paths[j]].Hash]
\* The node reached from the root by going right d times.
RECURSIVE RightMost(_, _)
RightMost(node, d) == IF d = 0 THEN node ELSE RightMost(node.Right[1], d - 1)

\* C9: the last node of a level of odd length is paired with itself.  Three
\* leaves build as H(H(h1||h2) || H(h3||h3)), the third leaf being both
\* children of its parent; five leaves as
\* H(H(H(h1||h2)||H(h3||h4)) || H(H(h5||h5)||H(h5||h5))) and six as
\* H(H(H(h1||h2)||H(h3||h4)) || H(H(h5||h6)||H(h5||h6))), where the odd node
\* of the second level is an internal one.
C9_OddNodePairedWithItself ==
    \A k \in 1..2 :
        Built(k) =>
            LET h == LeafHashes(k)
                n == Len(h)
                root == TreeOf(k).Root[1]
            IN  /\ n = 3 =>
                     /\ root.Hash = HH(HH(h[1], h[2]), HH(h[3], h[3]))
                     /\ root.Right[1].Left = root.Right[1].Right
                     /\ root.Right[1].Left[1].Hash = h[3]
                     /\ root.Right[1].Left[1].Left = <<>>
                /\ n = 5 =>
                     /\ root.Hash = HH(HH(HH(h[1], h[2]), HH(h[3], h[4])),
                                       HH(HH(h[5], h[5]), HH(h[5], h[5])))
                     /\ RightMost(root, 2).Left = RightMost(root, 2).Right
                     /\ RightMost(root, 1).Left = RightMost(root, 1).Right
                /\ n = 6 =>
                     /\ root.Hash = HH(HH(HH(h[1], h[2]), HH(h[3], h[4])),
                                       HH(HH(h[5], h[6]), HH(h[5], h[6])))
                     /\ RightMost(root, 1).Left = RightMost(root, 1).Right
                     /\ RightMost(root, 1).Hash = HH(RightMost(root, 2).Hash,
                                                     RightMost(root, 2).Hash)

C9_Witness ==
    /\ Built(2)
    /\ Cardinality(DOMAIN FilesOf(2)) = 3
    /\ ~bOut[2][1].presorted
    /\ Cardinality({FilesOf(2)[p].Hash : p \in DOMAIN FilesOf(2)}) = 2
    /\ TreeOf(2).Root[1].Right[1].Left = TreeOf(2).Root[1].Right[1].Right

\* C10: Build on an empty file map returns, without error, a tree whose root
\* has no children and no path and whose hash is the hex digest of the marker
\* "empty-tree" (not the empty string, the same for every root path), with
\* TotalSize 0 and an empty Files map.
C10_EmptyTree ==
    \A k \in 1..2 :
        (Built(k) /\ DOMAIN FilesOf(k) = {}) =>
            /\ ~bOut[k][1].err
            /\ TreeOf(k).Root =
                  <<Node(<<SumHex(Bytes(<<"e", "m", "p", "t", "y", "-", "t", "r", "e", "e">>))>>,
                         <<>>, <<>>, <<>>, 0, 0)>>
            /\ TreeOf(k).Root[1].Hash # <<>>
            /\ TreeOf(k).RootPath = bIn[k].rootPath
            /\ TreeOf(k).TotalSize = 0
            /\ DOMAIN TreeOf(k).Files = {}

C10_Witness ==
    /\ BothBuilt
    /\ DOMAIN FilesOf(1) = {} /\ DOMAIN FilesOf(2) = {}
    /\ bIn[1].rootPath # bIn[2].rootPath
    /\ RootHashOf(1) = RootHashOf(2)
    /\ RootHashOf(1) # <<>>

\* A leaf has a path and no children; an internal node has both children and
\* no path, size or mtime; and so for every node below.
RECURSIVE WellFormed(_)
WellFormed(node) ==
    IF node.Left = <<>> /\ node.Right = <<>> THEN node.Path # <<>>
    ELSE /\ node.Left # <<>> /\ node.Right # <<>>
         /\ node.Path = <<>> /\ node.Size = 0 /\ node.MTime = 0
         /\ WellFormed(node.Left[1]) /\ WellFormed(node.Right[1])
\* The number of edges of the longest way down from a node.
RECURSIVE Height(_)
Height(node) ==
    IF node.Left = <<>> /\ node.Right = <<>> THEN 0
    ELSE LET l == IF node.Left = <<>> THEN 0 ELSE Height(node.Left[1])
             r == IF node.Right = <<>> THEN 0 ELSE Height(node.Right[1])
         IN  1 + (IF l >= r THEN l ELSE r)
\* The nodes strictly below a node.
RECURSIVE Below(_)
Below(node) ==
    UNION {{c} \cup Below(c) : c \in {node[side][1] : side \in {s \in {"Left", "Right"} :
                                                              node[s] # <<>>}}}
\* ceil(log2(n)) for n >= 1.
CeilLog2(n) == CHOOSE h \in 0..n : 2^h >= n /\ \A g \in 0..(h - 1) : 2^g < n

\* C21: the tree Build returns for n >= 1 files is made of leaves (a path, no
\* children) and internal nodes (both children, no path, size or mtime), no
\* node is below itself, and its height is ceil(log2(n)).
C21_StrictBinaryTreeOfLogHeight ==
    \A k \in 1..2 :
        (Built(k) /\ DOMAIN FilesOf(k) # {}) =>
            LET root == TreeOf(k).Root[1]
                n == Cardinality(DOMAIN FilesOf(k))
            IN  /\ ~bOut[k][1].err
                /\ WellFormed(root)
                /\ \A x \in {root} \cup Below(root) : x \notin Below(x)
                /\ Height(root) = CeilLog2(n)

C21_Witness ==
    /\ BothBuilt
    /\ Cardinality(DOMAIN FilesOf(1)) = 6 /\ Height(TreeOf(1).Root[1]) = 3
    /\ Cardinality(DOMAIN FilesOf(2)) = 5 /\ Height(TreeOf(2).Root[1]) = 3
    /\ ~bOut[2][1].presorted
    /\ WellFormed(TreeOf(2).Root[1])

\* The nodes d edges below a node, from left to right.
RECURSIVE Fringe(_, _)
Fringe(node, d) ==
    IF d = 0 THEN <<node>>
    ELSE (IF node.Left = <<>> THEN <<>> ELSE Fringe(node.Left[1], d - 1))
         \o (IF node.Right = <<>> THEN <<>> ELSE Fringe(node.Right[1], d - 1))
\* The level d edges below the root of a tree of n leaves and height h: the
\* first ceil(n / 2^(h-d)) nodes at that depth (the nodes after them repeat
\* the odd last node's subtree).
Level(root, n, h, d) ==
    LET width == (n + 2^(h - d) - 1) \div 2^(h - d)
        all == Fringe(root, d)
    IN  IF Len(all) >= width THEN SubSeq(all, 1, width) ELSE <<>>

\* C22: in the tree Build returns, every node with children has the hash
\* H(left.hash || right.hash); the lowest level is the leaves of the files in
\* ascending path order; each level above holds, from left to right, the
\* parents of nodes 1 and 2, 3 and 4, ... of the level below (of the last
\* node with itself when their number is odd); the top level is one node, the
\* root.
C22_MerkleInvariant ==
    \A k \in 1..2 :
        (Built(k) /\ DOMAIN FilesOf(k) # {}) =>
            LET root == TreeOf(k).Root[1]
                n == Cardinality(DOMAIN FilesOf(k))
                h == Height(root)
                paths == SortStrings(Descending(DOMAIN FilesOf(k)))
            IN  /\ Len(TreeOf(k).Root) = 1
                /\ \A x \in {root} \cup Below(root) :
                      x.Left # <<>> => x.Hash = HH(x.Left[1].Hash, x.Right[1].Hash)
                /\ Level(root, n, h, 0) = <<root>>
                /\ Len(Level(root, n, h, h)) = n
                /\ \A j \in 1..n :
                      /\ Level(root, n, h, h)[j].Hash = FilesOf(k)[paths[j]].Hash
                      /\ Level(root, n, h, h)[j].Path =
                            RelativePath(paths[j], Clean(bIn[k].rootPath))
                      /\ Level(root, n, h, h)[j].Left = <<>>
                /\ \A d \in 0..(h - 1) :
                      LET upper == Level(root, n, h, d)
                          lower == Level(root, n, h, d + 1)
                      IN  /\ 2 * Len(upper) \in {Len(lower), Len(lower) + 1}
                          /\ \A j \in 1..Len(upper) :
                                /\ upper[j].Left = <<lower[2 * j - 1]>>
                                /\ upper[j].Right =
                                      <<lower[IF 2 * j <= Len(lower) THEN 2 * j
                                              ELSE 2 * j - 1]>>

C22_Witness ==
    /\ Built(2)
    /\ Cardinality(DOMAIN FilesOf(2)) = 6
    /\ ~bOut[2][1].presorted
    /\ Len(Level(TreeOf(2).Root[1], 6, 3, 2)) = 3
    /\ Len(Fringe(TreeOf(2).Root[1], 2)) = 4
    /\ TreeOf(2).Root[1].Hash =
          HH(HH(TreeOf(2).Root[1].Left[1].Left[1].Hash,
                TreeOf(2).Root[1].Left[1].Right[1].Hash),
             TreeOf(2).Root[1].Right[1].Hash)

\* The names of a path, from the outermost directory to the file.
Names(path) == CleanElems(Split(path), <<>>, path # <<>> /\ Head(path) = Separator)
\* The file at path is inside the directory root, both absolute.
Inside(path, root) ==
    /\ Len(Names(path)) > Len(Names(root))
    /\ SubSeq(Names(path), 1, Len(Names(root))) = Names(root)
\* The path that leads from the directory root to the file at path.
RelativeTo(path, root) ==
    JoinSep(SubSeq(Names(path), Len(Names(root)) + 1, Len(Names(path))))

\* C23: the leaves of the tree Build returns are one per key of the file
\* map, from left to right in ascending order of the keys; a leaf's hash is
\* the file's content hash as given, its size the file's size, its mtime the
\* whole seconds of the file's modification time, and its path leads from
\* the root directory to the file.
C23_LeafLevel ==
    \A k \in 1..2 :
        (Built(k) /\ DOMAIN FilesOf(k) # {}) =>
            LET root == TreeOf(k).Root[1]
                n == Cardinality(DOMAIN FilesOf(k))
                paths == SortStrings(Descending(DOMAIN FilesOf(k)))
                leaves == Level(root, n, Height(root), Height(root))
            IN  /\ Len(leaves) = n
                /\ {x \in {root} \cup Below(root) : x.Left = <<>>}
                      = {leaves[j] : j \in 1..n}
                /\ \A j \in 1..n :
                      LET fileData == FilesOf(k)[paths[j]]
                      IN  /\ leaves[j].Left = <<>> /\ leaves[j].Right = <<>>
                          /\ leaves[j].Hash = fileData.Hash
                          /\ leaves[j].Size = fileData.Size
                          /\ leaves[j].MTime = fileData.ModTime.sec
                          /\ Inside(paths[j], bIn[k].rootPath) =>
                                leaves[j].Path = RelativeTo(paths[j], bIn[k].rootPath)

SameContents ==
    /\ DOMAIN FilesOf(1) = DOMAIN FilesOf(2)
    /\ \A p \in DOMAIN FilesOf(1) : FilesOf(1)[p].Hash = FilesOf(2)[p].Hash

\* C28: two file maps with the same paths and content hashes build trees
\* with the same root hash, whatever the files' sizes and modification
\* times; and the Files of a returned tree is the map Build was given, as it
\* was given.
C28_RootIgnoresSizeAndTime ==
    /\ (BothBuilt /\ SameContents) => RootHashOf(1) = RootHashOf(2)
    /\ \A k \in 1..2 :
          (Built(k) /\ ~bOut[k][1].err) => TreeOf(k).Files = FilesOf(k)

C28_Witness ==
    /\ BothBuilt /\ SameContents
    /\ Cardinality(DOMAIN FilesOf(1)) = 3
    /\ \E p \in DOMAIN FilesOf(1) :
          /\ FilesOf(1)[p].Size # FilesOf(2)[p].Size
          /\ FilesOf(1)[p].ModTime # FilesOf(2)[p].ModTime
    /\ TreeOf(1).Root # TreeOf(2).Root
    /\ RootHashOf(1) = RootHashOf(2)

(***************************************************************************)
(* Properties of Save and Load.                                            *)
(***************************************************************************)
\* generateTree saved its tree T, and compareTree loaded the file it wrote.
TreeT == genOut[1].tree[1]
Reloaded == genOut # <<>> /\ ~genOut[1].err /\ loaded # <<>> /\ loaded[1].file = disk
LoadedTree == loaded[1].tree[1]

\* C11: for the tree T that Build returned and Save wrote, Load succeeds and
\* returns a tree with T's root hash and a Files map with the keys of T.Files
\* and, for every key, the same hash, size and modification time.
C11_RoundTrip ==
    Reloaded =>
        /\ ~loaded[1].err
        /\ LoadedTree.Root[1].Hash = TreeT.Root[1].Hash
        /\ DOMAIN LoadedTree.Files = DOMAIN TreeT.Files
        /\ \A p \in DOMAIN TreeT.Files :
              /\ LoadedTree.Files[p].Hash = TreeT.Files[p].Hash
              /\ LoadedTree.Files[p].Size = TreeT.Files[p].Size
              /\ LoadedTree.Files[p].ModTime = TreeT.Files[p].ModTime

\* The nodes of the tree under a pointer.
RECURSIVE NodesUnder(_)
NodesUnder(ptr) ==
    IF ptr = <<>> THEN {}
    ELSE {ptr[1]} \cup NodesUnder(ptr[1].Left) \cup NodesUnder(ptr[1].Right)

\* C12: every node of a loaded tree that carries a non-empty path has an
\* entry in Files, keyed by the join of the stored root path and the node's
\* path, with the node's hash, size and modification time.
C12_EveryLeafCollected ==
    (loaded # <<>> /\ ~loaded[1].err) =>
        \A node \in NodesUnder(LoadedTree.Root) :
            node.Path # <<>> =>
                LET key == Clean(LoadedTree.RootPath \o <<"/">> \o node.Path)
                IN  /\ key \in DOMAIN LoadedTree.Files
                    /\ LoadedTree.Files[key].Hash = node.Hash
                    /\ LoadedTree.Files[key].Size = node.Size
                    /\ LoadedTree.Files[key].ModTime.sec = node.MTime

\* The sum of Size over the entries of a Files map.
RECURSIVE SumSizes(_)
SumSizes(fileMap) ==
    IF DOMAIN fileMap = {} THEN 0
    ELSE LET p == CHOOSE q \in DOMAIN fileMap : TRUE
         IN  fileMap[p].Size + SumSizes(Without(fileMap, p))

\* C13: the TotalSize of a tree returned by Build or by Load is the sum of
\* Size over its Files, and the tree loaded from what Save wrote has the
\* TotalSize of the tree saved.
C13_TotalSizeIsSumOfFiles ==
    /\ genOut # <<>> => TreeT.TotalSize = SumSizes(TreeT.Files)
    /\ (scanned # <<>> /\ ~scanned[1].err) =>
          scanned[1].tree[1].TotalSize = SumSizes(scanned[1].tree[1].Files)
    /\ (loaded # <<>> /\ ~loaded[1].err) =>
          LoadedTree.TotalSize = SumSizes(LoadedTree.Files)
    /\ (Reloaded /\ ~loaded[1].err) => LoadedTree.TotalSize = TreeT.TotalSize

\* C14: Save returns an error when the destination cannot be written (and
\* then leaves it as it was); Load returns an error and no tree when the
\* file is unreadable or its content has no tree node, and a tree with a
\* root otherwise.
HasTreeNode(file) ==
    /\ file # <<>>
    /\ file[1].j = "object"
    /\ "tree" \in DOMAIN file[1].m
    /\ file[1].m["tree"].j = "object"
C14_CodecFailuresAreErrors ==
    /\ (genOut # <<>> /\ genOut[1].err) => disk = <<>>
    /\ (genOut # <<>> /\ ~genOut[1].err) => disk # <<>>
    /\ loaded # <<>> =>
          /\ loaded[1].err <=> ~HasTreeNode(loaded[1].file)
          /\ loaded[1].err => loaded[1].tree = <<>>
          /\ ~loaded[1].err => (loaded[1].tree # <<>> /\ LoadedTree.Root # <<>>)

(***************************************************************************)
(* Properties of Compare, of the report and of the exit status.            *)
(***************************************************************************)
Compared == cmpOut # <<>>
OldFiles == LoadedTree.Files
NewFiles == scanned[1].tree[1].Files
Result == cmpOut[1].result
PathsOf(changes) == {changes[k].Path : k \in 1..Len(changes)}

\* C15: Added holds exactly the paths of the new Files that the old Files
\* lack, Deleted exactly the paths of the old Files that the new lack, and
\* Modified exactly the paths of both whose content hashes differ, whatever
\* the sizes and modification times.
C15_ClassifiedByPathAndHash ==
    Compared =>
        /\ PathsOf(Result.Added) = DOMAIN NewFiles \ DOMAIN OldFiles
        /\ PathsOf(Result.Deleted) = DOMAIN OldFiles \ DOMAIN NewFiles
        /\ PathsOf(Result.Modified) =
              {p \in DOMAIN OldFiles \cap DOMAIN NewFiles :
                 OldFiles[p].Hash # NewFiles[p].Hash}

C15_Witness ==
    /\ Compared
    /\ \E p \in DOMAIN OldFiles \cap DOMAIN NewFiles :
          /\ OldFiles[p].Hash = NewFiles[p].Hash
          /\ OldFiles[p].Size # NewFiles[p].Size
          /\ OldFiles[p].ModTime # NewFiles[p].ModTime
          /\ p \notin PathsOf(Result.Added) \cup PathsOf(Result.Modified)
                        \cup PathsOf(Result.Deleted)
    /\ Result.Added # <<>>

StrictlyAscending(changes) ==
    \A k \in 1..(Len(changes) - 1) : StrLess(changes[k].Path, changes[k + 1].Path)

IsDigit(token) == token.t = "char" /\ InRun(HexDigits, token.c) /\ FromHexChar(token.c) < 10
RECURSIVE NumbersIn(_, _, _)
NumbersIn(line, current, numbers) ==
    IF line = <<>> THEN numbers \o current
    ELSE IF IsDigit(Head(line))
         THEN NumbersIn(Tail(line),
                        <<(IF current = <<>> THEN 0 ELSE current[1] * 10)
                           + FromHexChar(Head(line).c)>>,
                        numbers)
         ELSE NumbersIn(Tail(line), <<>>, numbers \o current)
IsNewLine(token) == token.t = "char" /\ token.c = "\n"
LastLine(report) ==
    LET ends == {k \in 1..(Len(report) - 1) : IsNewLine(report[k])}
        from == IF ends = {} THEN 1
                ELSE 1 + CHOOSE k \in ends : \A l \in ends : l <= k
    IN  SubSeq(report, from, Len(report))

\* C17: HasChanges is true exactly when one of the three sequences is not
\* empty; the report is "No changes detected." exactly when HasChanges is
\* false, and otherwise ends with the summary of the three lengths.
C17_HasChangesAndReport ==
    Compared =>
        /\ cmpOut[1].changes <=>
              (Len(Result.Added) + Len(Result.Modified) + Len(Result.Deleted) > 0)
        /\ (cmpOut[1].report =
               Str(<<"N", "o", " ", "c", "h", "a", "n", "g", "e", "s", " ",
                     "d", "e", "t", "e", "c", "t", "e", "d", ".">>))
              <=> ~cmpOut[1].changes
        /\ cmpOut[1].changes =>
              /\ NumbersIn(LastLine(cmpOut[1].report), <<>>, <<>>) =
                    <<Len(Result.Added), Len(Result.Modified), Len(Result.Deleted)>>
              /\ SubSeq(LastLine(cmpOut[1].report), 1, 8) =
                    Str(<<"S", "u", "m", "m", "a", "r", "y", ":">>)

C17_Witness ==
    /\ Compared
    /\ cmpOut[1].changes
    /\ Result.Added = <<>> /\ Result.Modified = <<>>
    /\ Len(Result.Deleted) = 2
    /\ NumbersIn(LastLine(cmpOut[1].report), <<>>, <<>>) = <<0, 0, 2>>

\* C18: the exit status of the compare command is 2 exactly when a file
\* could not be hashed, otherwise 1 exactly when Compare reported changes,
\* otherwise 0.
C18_ExitStatus ==
    exit # <<>> =>
        LET hashErrors == scanned # <<>> /\ scanned[1].Errors # {}
            changes == Compared /\ cmpOut[1].changes
        IN  /\ exit[1].code \in {0, 1, 2}
            /\ exit[1].code = 2 <=> hashErrors
            /\ exit[1].code = 1 <=> (~hashErrors /\ changes)
            /\ exit[1].code = 0 <=> (~hashErrors /\ Compared /\ ~changes)

\* C19: when the directory is as it was when its tree was saved and every
\* file is hashed, comparing the reloaded tree with the new tree reports
\* nothing.
C19_NoChangesAfterReload ==
    (/\ Reloaded
     /\ Compared
     /\ cmdIn.cmp = cmdIn.gen
     /\ scanned[1].Errors = {})
    => /\ ~cmpOut[1].changes
       /\ Result.Added = <<>>
       /\ Result.Modified = <<>>
       /\ Result.Deleted = <<>>

\* Compare on the trees of the command the other way round, and on each
\* tree with itself.
Reverse ==
    Compare(scanned[1].tree[1], LoadedTree,
            Descending(DOMAIN OldFiles), Descending(DOMAIN NewFiles))
SelfCompared(t) ==
    Compare(t, t, Descending(DOMAIN t.Files), Descending(DOMAIN t.Files))

\* C29: the paths of Added, Modified and Deleted are pairwise disjoint;
\* a tree compared with itself has no changes; what Compare(A, B) reports as
\* added Compare(B, A) reports as deleted and the reverse, and both report
\* the same paths as modified; an added entry carries the new data only, a
\* deleted entry the old data only, a modified entry both.
C29_CompareConsistent ==
    Compared =>
        /\ PathsOf(Result.Added) \cap PathsOf(Result.Modified) = {}
        /\ PathsOf(Result.Added) \cap PathsOf(Result.Deleted) = {}
        /\ PathsOf(Result.Modified) \cap PathsOf(Result.Deleted) = {}
        /\ ~HasChanges(SelfCompared(LoadedTree))
        /\ ~HasChanges(SelfCompared(scanned[1].tree[1]))
        /\ PathsOf(Result.Added) = PathsOf(Reverse.Deleted)
        /\ PathsOf(Result.Deleted) = PathsOf(Reverse.Added)
        /\ PathsOf(Result.Modified) = PathsOf(Reverse.Modified)
        /\ \A k \in 1..Len(Result.Added) :
              /\ Result.Added[k].OldData = <<>>
              /\ Result.Added[k].NewData = <<NewFiles[Result.Added[k].Path]>>
        /\ \A k \in 1..Len(Result.Deleted) :
              /\ Result.Deleted[k].OldData = <<OldFiles[Result.Deleted[k].Path]>>
              /\ Result.Deleted[k].NewData = <<>>
        /\ \A k \in 1..Len(Result.Modified) :
              /\ Result.Modified[k].OldData = <<OldFiles[Result.Modified[k].Path]>>
              /\ Result.Modified[k].NewData = <<NewFiles[Result.Modified[k].Path]>>

C29_Witness ==
    /\ Compared
    /\ Len(Result.Added) >= 1 /\ Len(Result.Modified) >= 1
    /\ Len(Reverse.Deleted) >= 1 /\ Len(Reverse.Modified) >= 1
    /\ DOMAIN OldFiles # {}

\* The paths of the files of the saved tree: of its leaves, under its root.
SavedPaths ==
    {Join(LoadedTree.RootPath, node.Path) :
       node \in {x \in NodesUnder(LoadedTree.Root) : x.Path # <<>>}}

\* C30: a file that could not be hashed is not in the new tree's Files; it
\* is reported as deleted when the saved tree has its path and not reported
\* at all otherwise, never as modified or added; and the exit status is 2.
C30_FailedFileReportedDeleted ==
    Compared =>
        \A p \in scanned[1].Errors :
            /\ p \notin DOMAIN NewFiles
            /\ p \notin PathsOf(Result.Modified)
            /\ p \notin PathsOf(Result.Added)
            /\ p \in PathsOf(Result.Deleted) <=> p \in SavedPaths
            /\ exit # <<>> /\ exit[1].code = 2

(***************************************************************************)
(* Properties of HashFile.                                                 *)
(***************************************************************************)
\* C20: whatever the sizes of the reads, HashFile returns the hex digest of
\* the whole content, as one write of it to the accumulator gives; when the
\* file cannot be opened or a read fails it returns the empty string and an
\* error.
C20_ChunkedEqualsWhole ==
    hRet # <<>> =>
        /\ ~hRet[1].err => hRet[1].hash = <<SumHex(hIn.data)>>
        /\ hRet[1].err => hRet[1].hash = <<>>
        /\ ~hIn.readable => hRet[1].err

C20_Witness ==
    /\ hRet # <<>>
    /\ ~hRet[1].err
    /\ Len(hIn.data) > bufferSize
    /\ hIn.data[1] # hIn.data[Len(hIn.data)]
    /\ hRet[1].hash = <<SumHex(hIn.data)>>

====
